---- MODULE Spec2Model ----
(***************************************************************************)
(* Lifecycle and concurrency control plane of uvicorn/server.py:           *)
(* Server.serve / startup / main_loop / the three background loops /       *)
(* shutdown / capture_signals / handle_exit, over the shared ServerState.  *)
(*                                                                         *)
(* Scheduling: one asyncio event loop.  The serve coroutine, the three     *)
(* background tasks and the connection handlers are cooperative: a step of *)
(* any of them runs from one suspension point (await) to the next, so each *)
(* action below is one such run.  Background tasks and handlers only run   *)
(* while the serve coroutine is parked at an await (Suspended).  The OS    *)
(* signal handler (handle_exit) is the one piece of code that may run      *)
(* between any two statements.                                             *)
(*                                                                         *)
(* Time is abstract: a timer whose delay is positive may fire whenever the *)
(* coroutine that armed it is parked on it.                                *)
(***************************************************************************)
EXTENDS Integers, Sequences, FiniteSets, TLC

\* ------------------------------------------------------------------ bounds
MaxConns == 2
MaxTasks == 1
MaxRequests == 2
MaxSignals == 2
MaxEvents == 3
MaxPoolSize == 2
MaxTicks == 3

\* ------------------------------------------------------- program constants
SIGINT == 2
SIGTERM == 15
HANDLED_SIGNALS == {SIGINT, SIGTERM}

\* time.time() when the Server is constructed, and config.timeout_notify, in
\* seconds: the clock starts just before a minute rolls over, later than one
\* notify interval after the zero of the clock.
Epoch == 58
TimeoutNotify == 1
\* config.encoded_headers when the configuration has static headers
StaticHeaders == <<<<"server", "uvicorn">>>>

\* The request ceiling used when limit_max_requests is configured: low enough
\* for total_requests to reach it and to pass it.
Limit == MaxRequests - 1
\* limit_max_requests is None
NoLimit == 0 - 1

ConnIds == 1..MaxConns
TaskIds == 1..MaxTasks
SocketIds == {"sock1", "sock2"}
Loops == {"date", "notify", "max_requests"}
EventIds == 1..MaxEvents
\* two threads calling acquire_event at once
Callers == {"caller1", "caller2"}

VARIABLES
    \* ---- configuration and arguments of serve (fixed after Init)
    sockets,                    \* serve(sockets=...): [is_none, items]
    callback_notify,            \* config.callback_notify is not None
    limit_max_requests,         \* config.limit_max_requests (NoLimit = None)
    timeout_graceful_shutdown,  \* "None" or "finite" (a positive number of seconds)
    config_fd,                  \* config.fd: "None" or "fd"
    config_uds,                 \* config.uds: "None" or "path"
    main_thread,                \* serve runs on the main thread of the process
    date_header,                \* config.date_header
    encoded_headers,            \* config.encoded_headers
    timeout_notify,             \* config.timeout_notify, in seconds
    \* ---- Server
    pc,                         \* position of the serve coroutine
    started, should_exit, force_exit,
    captured_signals,           \* Server._captured_signals
    handlers_installed,         \* handle_exit is the process's handler for HANDLED_SIGNALS
    reraised,                   \* signals passed to signal.raise_signal, in order
    servers, servers_closed,    \* Server.servers and those of them closed
    sockets_closed,             \* the supplied sockets that were closed
    \* ---- lifespan collaborator
    lifespan_should_exit, lifespan_shutdown_calls,
    \* ---- ServerState
    total_requests, connections, tasks, shutdown_event,
    \* ---- handlers and request tasks as seen by shutdown
    shutdown_requested,         \* handlers whose shutdown() was called
    snapshot, todo,             \* list(connections) and what is left to iterate
    cancel_sent,                \* tasks in `tasks` whose cancel() was called
    \* ---- background loops spawned by main_loop
    bg,                         \* Loops -> "none" | "new" | "waiting" | "callback" | "done"
    bg_cancel,                  \* Loops -> a cancel() is pending on the task
    gather_timed_out,           \* the 1.0 s timer of the pending wait_for(gather) expired
    \* ---- observers
    main_loop_state,            \* "not_started" | "running" | "returned"
    shutdown_runs,              \* number of times shutdown() was entered
    drain_outcome,              \* "none" | "waiting" | "completed" | "timeout"
    drain_blocked,              \* the drain wait parked at least once
    empty_at_shutdown,          \* connections and tasks were empty when shutdown() began
    max_requests_fired,         \* _check_max_requests took its limit branch
    exit_status,                \* "running" | "returned" | "sys_exit_1" | "signalled"
    delivered,                  \* signals the OS delivered to handle_exit, in order
    bind_attempts,              \* create_server calls made on the host/port branch
    cancel_escaped,             \* loops whose CancelledError left the coroutine body
    \* ---- ServerState event pool
    event_pool,                 \* ServerState._event_pool, a list of Event objects
    event_pool_max_size,        \* ServerState._event_pool_max_size
    event_is_set,               \* EventIds -> the flag of that Event object
    allocated,                  \* Event objects 1..allocated were created by acquire_event
    last_acquired,              \* what the latest acquire_event returned, as returned
    last_released,              \* what the latest release_event was given and did
    released,                   \* the Event objects release_event was ever given
    held,                       \* Events handed out by acquire_event and not released since
    \* ---- callers of the event pool
    test_phase, test_n,         \* the acquire-all-then-release-all run: position, N
    test_events, test_todo,     \* its list `events` and what is left to release
    race_started,               \* two threads are inside acquire_event
    caller_pc,                  \* Callers -> "idle" | "check" | "pop" | "clear" | "fresh" | "done"
    caller_result,              \* Callers -> what acquire_event returned to that thread
    \* ---- clock, date header cache and notify timing
    now,                        \* int(time.time()): the clock, in whole seconds
    cached_date,                \* ServerState._cached_date (<<>> is None)
    cached_date_time,           \* ServerState._cached_date_time
    default_headers,            \* ServerState.default_headers
    current_date,               \* the date loop's local current_date (<<>> before it ran)
    last_notified,              \* Server.last_notified
    notify_current_time,        \* the notify loop's local current_time
    format_log,                 \* the seconds formatdate was called with, in order
    last_date_call,             \* the latest get_date_header call: second, value, from_cache
    notify_log,                 \* the current_time of every callback invocation, in order
    late_work,                  \* a loop did a unit of work with the shutdown event set
    \* ---- threads inside release_event or get_date_header at once
    thread_pc,                  \* Callers -> position inside the method ("idle" outside)
    thread_local                \* Callers -> the thread's locals: event, current_time, result

cfgvars == <<sockets, callback_notify, limit_max_requests, timeout_graceful_shutdown,
             config_fd, config_uds, main_thread, date_header, encoded_headers,
             timeout_notify>>
logvars == <<delivered, bind_attempts, cancel_escaped>>
testvars == <<test_phase, test_n, test_events, test_todo>>
racevars == <<race_started, caller_pc, caller_result>>
poolvars == <<event_pool, event_pool_max_size, event_is_set, allocated, last_acquired,
              last_released, released, held, testvars, racevars>>
srvvars == <<started, should_exit, force_exit, captured_signals, handlers_installed,
             reraised, servers, servers_closed, sockets_closed>>
lifevars == <<lifespan_should_exit, lifespan_shutdown_calls>>
statevars == <<total_requests, connections, tasks, shutdown_event>>
sdvars == <<shutdown_requested, snapshot, todo, cancel_sent>>
bgvars == <<bg, bg_cancel, gather_timed_out>>
obsvars == <<main_loop_state, shutdown_runs, drain_outcome, drain_blocked, empty_at_shutdown,
             max_requests_fired, exit_status>>
clockvars == <<now, cached_date, cached_date_time, default_headers, current_date,
               last_notified, notify_current_time, format_log, last_date_call, notify_log,
               late_work>>
threadvars == <<thread_pc, thread_local>>
vars == <<cfgvars, pc, srvvars, lifevars, statevars, sdvars, bgvars, obsvars, logvars,
          poolvars, clockvars, threadvars>>

\* ------------------------------------------------------------------- Init
\* Server.__init__: the state of a Server before serve is called.
InitServer ==
    /\ pc = "capture"
    /\ started = FALSE /\ should_exit = FALSE /\ force_exit = FALSE
    /\ captured_signals = <<>>
    /\ handlers_installed = FALSE
    /\ reraised = <<>>
    /\ servers = {} /\ servers_closed = {} /\ sockets_closed = {}
    /\ lifespan_should_exit = FALSE /\ lifespan_shutdown_calls = 0
    /\ shutdown_requested = {} /\ snapshot = {} /\ todo = {} /\ cancel_sent = {}
    /\ bg = [l \in Loops |-> "none"]
    /\ bg_cancel = [l \in Loops |-> FALSE]
    /\ gather_timed_out = FALSE
    /\ main_loop_state = "not_started"
    /\ shutdown_runs = 0
    /\ drain_outcome = "none"
    /\ drain_blocked = FALSE
    /\ empty_at_shutdown = FALSE
    /\ max_requests_fired = FALSE
    /\ exit_status = "running"
    /\ delivered = <<>>
    /\ bind_attempts = 0
    /\ cancel_escaped = {}
    /\ last_notified = 0
    /\ notify_current_time = 0
    /\ notify_log = <<>>
    /\ late_work = FALSE

\* ServerState.__init__: counters at zero, empty sets, an empty event pool,
\* the shutdown event unset.
InitServerState ==
    /\ total_requests = 0 /\ connections = {} /\ tasks = {}
    /\ shutdown_event = FALSE
    /\ event_pool = <<>>
    /\ event_is_set = [e \in EventIds |-> FALSE]
    /\ allocated = 0
    /\ last_acquired = [event |-> 0, set_in_pool |-> FALSE, was_set |-> FALSE,
                        fresh |-> FALSE, released_before |-> FALSE]
    /\ last_released = [event |-> 0, pooled |-> FALSE, set_before |-> FALSE,
                        set_after |-> FALSE]
    /\ released = {}
    /\ held = {}
    /\ default_headers = <<>>
    /\ cached_date = <<>> /\ cached_date_time = 0
    /\ current_date = <<>>
    /\ format_log = <<>>
    /\ last_date_call = [second |-> 0, value |-> <<>>, from_cache |-> FALSE]

\* Nobody is running the pool scenarios below.
NoResult == [event |-> 0, fresh |-> FALSE, is_set |-> FALSE, error |-> FALSE]

\* The locals of a thread that is in neither method.
NoLocals == [event |-> 0, current_time |-> 0, stale |-> FALSE, result |-> <<>>]

InitCallers ==
    /\ test_phase = "off" /\ test_n = 0 /\ test_events = <<>> /\ test_todo = <<>>
    /\ race_started = FALSE
    /\ caller_pc = [c \in Callers |-> "idle"]
    /\ caller_result = [c \in Callers |-> NoResult]
    /\ thread_pc = [c \in Callers |-> "idle"]
    /\ thread_local = [c \in Callers |-> NoLocals]

\* serve on the main thread, with a socket list or the host/port pair, for
\* every combination of the optional loops and of the drain deadline.
Init ==
    /\ sockets \in {[is_none |-> TRUE, items |-> {}],
                    [is_none |-> FALSE, items |-> SocketIds]}
    /\ callback_notify \in BOOLEAN
    /\ limit_max_requests \in {NoLimit, Limit}
    /\ timeout_graceful_shutdown \in {"None", "finite"}
    /\ config_fd = "None" /\ config_uds = "None"
    /\ main_thread = TRUE
    /\ date_header = TRUE /\ encoded_headers = StaticHeaders
    /\ timeout_notify = TimeoutNotify
    /\ now = Epoch
    /\ event_pool_max_size = MaxPoolSize
    /\ InitServer
    /\ InitServerState
    /\ InitCallers

\* --------------------------------------------------------------- helpers
RECURSIVE Reverse(_)
\* reversed(self._captured_signals)
Reverse(s) == IF s = <<>> THEN <<>> ELSE Append(Reverse(Tail(s)), Head(s))

\* The awaits at which the serve coroutine parks and lets other tasks, handlers
\* and timers run: lifespan.startup(), loop.create_server(), lifespan.shutdown()
\* on the bind-failure path, _shutdown_event.wait(), wait_for(gather), sleep(0.1),
\* and the sleeps and wait_closed() of _wait_tasks_to_complete.
Suspended ==
    pc \in {"lifespan_startup", "bind", "bind_failed", "ml_wait", "ml_gather",
            "sd_sleep", "sd_wait_conns", "sd_wait_tasks", "sd_wait_closed"}

\* A listener accepts while its asyncio server is bound and not closed.
Listening == servers \ servers_closed # {}

NotDoneIncludingUnspawned == {l \in Loops : bg[l] # "done"}

\* tasks created by main_loop that are not done
NotDone == {l \in Loops : bg[l] \notin {"none", "done"}}

\* ------------------------------------------------------- capture_signals
CaptureSignalsEnterAnyThread ==
    /\ pc = "capture"
    /\ handlers_installed' = TRUE
    /\ pc' = "lifespan_startup"
    /\ UNCHANGED <<poolvars, logvars, clockvars, threadvars>>
    /\ UNCHANGED <<cfgvars, started, should_exit, force_exit, captured_signals, reraised,
                   servers, servers_closed, sockets_closed, lifevars, statevars, sdvars,
                   bgvars, obsvars>>

\* with self.capture_signals(): on the main thread install handle_exit for
\* HANDLED_SIGNALS; on any other thread just yield.
CaptureSignalsEnter ==
    /\ pc = "capture"
    /\ handlers_installed' = main_thread
    /\ pc' = "lifespan_startup"
    /\ UNCHANGED <<poolvars, logvars, clockvars, threadvars>>
    /\ UNCHANGED <<cfgvars, started, should_exit, force_exit, captured_signals, reraised,
                   servers, servers_closed, sockets_closed, lifevars, statevars, sdvars,
                   bgvars, obsvars>>

CaptureSignalsExitKeepsHandler ==
    /\ pc = "capture_exit"
    /\ UNCHANGED handlers_installed
    /\ pc' = IF main_thread THEN "reraise" ELSE "done"
    /\ exit_status' = IF main_thread THEN exit_status ELSE "returned"
    /\ UNCHANGED <<poolvars, logvars, clockvars, threadvars>>
    /\ UNCHANGED <<cfgvars, started, should_exit, force_exit, captured_signals, reraised,
                   servers, servers_closed, sockets_closed, lifevars, statevars, sdvars,
                   bgvars, main_loop_state, shutdown_runs, drain_outcome, drain_blocked,
                   empty_at_shutdown, max_requests_fired>>

\* Leaving the with block after _serve returned.  On the main thread the
\* finally block puts the original handlers back; on any other thread the
\* context manager returns right after its yield.
CaptureSignalsExit ==
    /\ pc = "capture_exit"
    /\ handlers_installed' = IF main_thread THEN FALSE ELSE handlers_installed
    /\ pc' = IF main_thread THEN "reraise" ELSE "done"
    /\ exit_status' = IF main_thread THEN exit_status ELSE "returned"
    /\ UNCHANGED <<poolvars, logvars, clockvars, threadvars>>
    /\ UNCHANGED <<cfgvars, started, should_exit, force_exit, captured_signals, reraised,
                   servers, servers_closed, sockets_closed, lifevars, statevars, sdvars,
                   bgvars, main_loop_state, shutdown_runs, drain_outcome, drain_blocked,
                   empty_at_shutdown, max_requests_fired>>

\* for captured_signal in reversed(self._captured_signals):
\*     signal.raise_signal(captured_signal)
\* The signal goes to the handler that was put back.  What that handler does is
\* the environment's: it may return (a supervisor's own handler, SIG_IGN, the
\* first SIGINT under asyncio's runner), or end the loop (SIG_DFL of SIGTERM
\* ends the process, default_int_handler raises KeyboardInterrupt).
ReraiseCaptured ==
    /\ pc = "reraise"
    /\ Len(reraised) < Len(captured_signals)
    /\ reraised' = Append(reraised, Reverse(captured_signals)[Len(reraised) + 1])
    /\ \E handler_returns \in BOOLEAN :
        IF handler_returns
        THEN UNCHANGED <<pc, exit_status>>
        ELSE pc' = "done" /\ exit_status' = "signalled"
    /\ UNCHANGED <<poolvars, logvars, clockvars, threadvars>>
    /\ UNCHANGED <<cfgvars, started, should_exit, force_exit, captured_signals,
                   handlers_installed, servers, servers_closed, sockets_closed, lifevars,
                   statevars, sdvars, bgvars, main_loop_state, shutdown_runs, drain_outcome,
                   drain_blocked, empty_at_shutdown, max_requests_fired>>

\* The re-raise loop is over: capture_signals and serve return.
ServeReturn ==
    /\ pc = "reraise"
    /\ Len(reraised) = Len(captured_signals)
    /\ pc' = "done"
    /\ exit_status' = "returned"
    /\ UNCHANGED <<poolvars, logvars, clockvars, threadvars>>
    /\ UNCHANGED <<cfgvars, srvvars, lifevars, statevars, sdvars, bgvars, main_loop_state,
                   shutdown_runs, drain_outcome, drain_blocked, empty_at_shutdown,
                   max_requests_fired>>

handle_exitNoEvent(sig) ==
    /\ captured_signals' = Append(captured_signals, sig)
    /\ IF should_exit /\ sig = SIGINT
       THEN force_exit' = TRUE /\ UNCHANGED should_exit
       ELSE should_exit' = TRUE /\ UNCHANGED force_exit
    /\ UNCHANGED shutdown_event

handle_exitAnySignalForces(sig) ==
    /\ captured_signals' = Append(captured_signals, sig)
    /\ IF should_exit
       THEN force_exit' = TRUE /\ UNCHANGED should_exit
       ELSE should_exit' = TRUE /\ UNCHANGED force_exit
    /\ shutdown_event' = TRUE

\* handle_exit(sig, frame): runs between any two statements while installed.
handle_exit(sig) ==
    /\ captured_signals' = Append(captured_signals, sig)
    /\ IF should_exit /\ sig = SIGINT
       THEN force_exit' = TRUE /\ UNCHANGED should_exit
       ELSE should_exit' = TRUE /\ UNCHANGED force_exit
    /\ shutdown_event' = TRUE

\* The OS delivers a handled signal while handle_exit is the installed handler.
Signal ==
    /\ handlers_installed
    /\ Len(captured_signals) < MaxSignals
    /\ \E sig \in HANDLED_SIGNALS :
        /\ delivered' = Append(delivered, sig)
        /\ handle_exit(sig)
    /\ UNCHANGED <<poolvars, bind_attempts, cancel_escaped, clockvars, threadvars>>
    /\ UNCHANGED <<cfgvars, pc, started, handlers_installed, reraised, servers,
                   servers_closed, sockets_closed, lifevars, total_requests, connections,
                   tasks, sdvars, bgvars, obsvars>>

\* A caller outside serve stops the server the way the tests do:
\* server.should_exit = True; server.server_state._shutdown_event.set()
ExternalShutdown ==
    /\ pc = "ml_wait"
    /\ ~shutdown_event
    /\ should_exit' = TRUE
    /\ shutdown_event' = TRUE
    /\ UNCHANGED <<poolvars, logvars, clockvars, threadvars>>
    /\ UNCHANGED <<cfgvars, pc, started, force_exit, captured_signals, handlers_installed,
                   reraised, servers, servers_closed, sockets_closed, lifevars,
                   total_requests, connections, tasks, sdvars, bgvars, obsvars>>

\* ---------------------------------------------------------------- startup
StartupLifespanNoReturn ==
    /\ pc = "lifespan_startup"
    /\ \E exit \in BOOLEAN :
        /\ lifespan_should_exit' = exit
        /\ IF exit THEN should_exit' = TRUE ELSE UNCHANGED should_exit
        /\ pc' = "bind"
    /\ UNCHANGED <<poolvars, logvars, clockvars, threadvars>>
    /\ UNCHANGED <<cfgvars, started, force_exit, captured_signals, handlers_installed,
                   reraised, servers, servers_closed, sockets_closed,
                   lifespan_shutdown_calls, statevars, sdvars, bgvars, obsvars>>

\* startup(), first part: await self.lifespan.startup(); the handshake may ask
\* to exit, and then startup returns before anything is bound.
StartupLifespan ==
    /\ pc = "lifespan_startup"
    /\ \E exit \in BOOLEAN :
        /\ lifespan_should_exit' = exit
        /\ IF exit
           THEN should_exit' = TRUE /\ pc' = "serve_check"
           ELSE UNCHANGED should_exit /\ pc' = "bind"
    /\ UNCHANGED <<poolvars, logvars, clockvars, threadvars>>
    /\ UNCHANGED <<cfgvars, started, force_exit, captured_signals, handlers_installed,
                   reraised, servers, servers_closed, sockets_closed,
                   lifespan_shutdown_calls, statevars, sdvars, bgvars, obsvars>>

\* The branch startup takes: if sockets is not None / elif config.fd is not
\* None / elif config.uds is not None / else.
ListenerSource ==
    IF ~sockets.is_none THEN "sockets"
    ELSE IF config_fd # "None" THEN "fd"
    ELSE IF config_uds # "None" THEN "uds"
    ELSE "host_port"

\* The listeners startup creates, each tagged with the source it came from: one
\* per supplied socket, else one on the socket made from config.fd, else one
\* on the path config.uds, else one from the host/port pair.
BoundServers ==
    IF ListenerSource = "sockets" THEN {<<"sockets", s>> : s \in sockets.items}
    ELSE IF ListenerSource = "fd" THEN {<<"fd", config_fd>>}
    ELSE IF ListenerSource = "uds" THEN {<<"uds", config_uds>>}
    ELSE {<<"host_port", "host_port">>}

\* startup(), second part: the create_server awaits succeed; self.started = True.
StartupBind ==
    /\ pc = "bind"
    /\ servers' = BoundServers
    /\ started' = TRUE
    /\ bind_attempts' = IF ListenerSource = "host_port" THEN bind_attempts + 1
                        ELSE bind_attempts
    /\ pc' = "serve_check"
    /\ UNCHANGED <<poolvars, delivered, cancel_escaped, clockvars, threadvars>>
    /\ UNCHANGED <<cfgvars, should_exit, force_exit, captured_signals, handlers_installed,
                   reraised, servers_closed, sockets_closed, lifevars, statevars, sdvars,
                   bgvars, obsvars>>

\* startup(), host/port branch: create_server raises OSError.
StartupBindFail ==
    /\ pc = "bind"
    /\ ListenerSource = "host_port"
    /\ bind_attempts' = bind_attempts + 1
    /\ pc' = "bind_failed"
    /\ UNCHANGED <<poolvars, delivered, cancel_escaped, clockvars, threadvars>>
    /\ UNCHANGED <<cfgvars, srvvars, lifevars, statevars, sdvars, bgvars, obsvars>>

StartupSysExitNoHandshake ==
    /\ pc = "bind_failed"
    /\ UNCHANGED lifespan_shutdown_calls
    /\ handlers_installed' = FALSE
    /\ exit_status' = "sys_exit_1"
    /\ pc' = "exited"
    /\ UNCHANGED <<poolvars, logvars, clockvars, threadvars>>
    /\ UNCHANGED <<cfgvars, started, should_exit, force_exit, captured_signals, reraised,
                   servers, servers_closed, sockets_closed, lifespan_should_exit,
                   statevars, sdvars, bgvars, main_loop_state, shutdown_runs, drain_outcome,
                   drain_blocked, empty_at_shutdown, max_requests_fired>>

\* ... await self.lifespan.shutdown(); sys.exit(1).  SystemExit leaves the with
\* block of serve through the finally of capture_signals, which restores the
\* handlers; the statements after the finally do not run.
StartupSysExit ==
    /\ pc = "bind_failed"
    /\ lifespan_shutdown_calls' = lifespan_shutdown_calls + 1
    /\ handlers_installed' = FALSE
    /\ exit_status' = "sys_exit_1"
    /\ pc' = "exited"
    /\ UNCHANGED <<poolvars, logvars, clockvars, threadvars>>
    /\ UNCHANGED <<cfgvars, started, should_exit, force_exit, captured_signals, reraised,
                   servers, servers_closed, sockets_closed, lifespan_should_exit,
                   statevars, sdvars, bgvars, main_loop_state, shutdown_runs, drain_outcome,
                   drain_blocked, empty_at_shutdown, max_requests_fired>>

\* ----------------------------------------------------------------- _serve
ServeAfterStartupIgnoresExit ==
    /\ pc = "serve_check"
    /\ pc' = "main_loop"
    /\ UNCHANGED <<poolvars, logvars, clockvars, threadvars>>
    /\ UNCHANGED <<cfgvars, srvvars, lifevars, statevars, sdvars, bgvars, obsvars>>

\* await self.startup(...); if self.should_exit: return; await self.main_loop()
ServeAfterStartup ==
    /\ pc = "serve_check"
    /\ pc' = IF should_exit THEN "capture_exit" ELSE "main_loop"
    /\ UNCHANGED <<poolvars, logvars, clockvars, threadvars>>
    /\ UNCHANGED <<cfgvars, srvvars, lifevars, statevars, sdvars, bgvars, obsvars>>

\* -------------------------------------------------------------- main_loop
\* The tasks main_loop creates.
Spawned ==
    {"date"} \cup (IF callback_notify THEN {"notify"} ELSE {})
             \cup (IF limit_max_requests # NoLimit THEN {"max_requests"} ELSE {})

\* main_loop up to its first await: create the tasks, then
\* await _shutdown_event.wait().  Event.wait() returns at once when the event is
\* already set; the finally block then cancels the tasks before any of them ran.
MainLoopStart ==
    /\ pc = "main_loop"
    /\ bg' = [l \in Loops |-> IF l \in Spawned THEN "new" ELSE "none"]
    /\ IF shutdown_event
       THEN /\ bg_cancel' = [l \in Loops |-> l \in Spawned]
            /\ pc' = "ml_gather"
       ELSE /\ UNCHANGED bg_cancel
            /\ pc' = "ml_wait"
    /\ main_loop_state' = "running"
    /\ UNCHANGED <<poolvars, logvars, clockvars, threadvars>>
    /\ UNCHANGED <<cfgvars, srvvars, lifevars, statevars, sdvars, gather_timed_out,
                   shutdown_runs, drain_outcome, drain_blocked, empty_at_shutdown,
                   max_requests_fired, exit_status>>

\* What wakes main_loop from its wait.
MainLoopWoken == shutdown_event

\* The wait on the shutdown event returns; finally: cancel every task that is
\* not done, then await wait_for(gather(*tasks, return_exceptions=True), 1.0).
MainLoopWake ==
    /\ pc = "ml_wait"
    /\ MainLoopWoken
    /\ bg_cancel' = [l \in Loops |-> bg_cancel[l] \/ l \in NotDone]
    /\ pc' = "ml_gather"
    /\ UNCHANGED <<poolvars, logvars, clockvars, threadvars>>
    /\ UNCHANGED <<cfgvars, srvvars, lifevars, statevars, sdvars, bg, gather_timed_out,
                   obsvars>>

\* gather(..., return_exceptions=True) completes once every task is done, and
\* main_loop returns; _serve goes on to shutdown().
MainLoopGatherDone ==
    /\ pc = "ml_gather"
    /\ NotDone = {}
    /\ gather_timed_out' = FALSE
    /\ main_loop_state' = "returned"
    /\ pc' = "shutdown"
    /\ UNCHANGED <<poolvars, logvars, clockvars, threadvars>>
    /\ UNCHANGED <<cfgvars, srvvars, lifevars, statevars, sdvars, bg, bg_cancel,
                   shutdown_runs, drain_outcome, drain_blocked, empty_at_shutdown,
                   max_requests_fired, exit_status>>

MainLoopGatherTimeoutAbandons ==
    /\ pc = "ml_gather"
    /\ NotDone # {}
    /\ ~gather_timed_out
    /\ gather_timed_out' = TRUE
    /\ bg_cancel' = [l \in Loops |-> bg_cancel[l] \/ l \in NotDone]
    /\ main_loop_state' = "returned"
    /\ pc' = "shutdown"
    /\ UNCHANGED <<poolvars, logvars, clockvars, threadvars>>
    /\ UNCHANGED <<cfgvars, srvvars, lifevars, statevars, sdvars, bg, shutdown_runs,
                   drain_outcome, drain_blocked, empty_at_shutdown, max_requests_fired,
                   exit_status>>

\* The 1.0 s timeout of wait_for expires first.  wait_for cancels the gather
\* future, which cancels its children again, and keeps awaiting until the gather
\* future is done before raising TimeoutError into `except: pass`; the gather
\* future is done only when all its children are.  main_loop stays parked.
MainLoopGatherTimeout ==
    /\ pc = "ml_gather"
    /\ NotDone # {}
    /\ ~gather_timed_out
    /\ gather_timed_out' = TRUE
    /\ bg_cancel' = [l \in Loops |-> bg_cancel[l] \/ l \in NotDone]
    /\ UNCHANGED <<poolvars, logvars, clockvars, threadvars>>
    /\ UNCHANGED <<cfgvars, pc, srvvars, lifevars, statevars, sdvars, bg, obsvars>>

\* ------------------------------------------------------ background loops
\* await asyncio.wait_for(self.server_state._shutdown_event.wait(), timeout=...)
\* at the end of an iteration: the wait returns at once when the event is set
\* (break), else the task parks on it.
AfterIteration == IF shutdown_event THEN "done" ELSE "waiting"

\* A task runs its next iteration when it first starts or when the timeout of
\* its wait_for expired (TimeoutError: continue).
Runnable(l) == Suspended /\ bg[l] \in {"new", "waiting"} /\ ~bg_cancel[l]

\* formatdate(current_time, usegmt=True).encode(): the fields of the HTTP date
\* of an epoch second, <<weekday, days since the epoch, hour, minute, second>>
\* (the epoch day was a Thursday, weekday 3 counting from Monday).
FormatDate(t) ==
    <<((t \div 86400) + 3) % 7, t \div 86400, (t % 86400) \div 3600, (t % 3600) \div 60,
      t % 60>>

CacheStaleOnlyWhenEmpty == cached_date = <<>>

CacheStaleAlways == TRUE

\* if current_time != self._cached_date_time or self._cached_date is None
CacheStale == now # cached_date_time \/ cached_date = <<>>

\* ServerState.get_date_header with current_time = int(time.time()) = now:
\* formats and stores when the cache is stale, and returns self._cached_date,
\* which is cached_date' here.
get_date_header ==
    /\ IF CacheStale
       THEN /\ cached_date' = FormatDate(now)
            /\ cached_date_time' = now
            /\ format_log' = Append(format_log, now)
       ELSE UNCHANGED <<cached_date, cached_date_time, format_log>>
    /\ last_date_call' = [second |-> now, value |-> cached_date',
                          from_cache |-> ~CacheStale]

\* A caller outside the loops (a protocol building a response, a test) calls
\* server_state.get_date_header().
GetDateHeader ==
    /\ get_date_header
    /\ UNCHANGED <<now, default_headers, current_date, last_notified, notify_current_time,
                   notify_log, late_work>>
    /\ UNCHANGED <<cfgvars, pc, srvvars, lifevars, statevars, sdvars, bgvars, obsvars,
                   logvars, poolvars, threadvars>>

\* The wall clock reaches the next whole second.
Tick ==
    /\ now < Epoch + MaxTicks
    /\ now' = now + 1
    /\ UNCHANGED <<cached_date, cached_date_time, default_headers, current_date,
                   last_notified, notify_current_time, format_log, last_date_call,
                   notify_log, late_work>>
    /\ UNCHANGED <<cfgvars, pc, srvvars, lifevars, statevars, sdvars, bgvars, obsvars,
                   logvars, poolvars, threadvars>>

LoopGuardForever == TRUE

\* while not self.should_exit: the test at the top of each background loop,
\* taken when the task first runs and after every `continue`.
LoopGuard == ~should_exit

DateHeaderListAlways(d) == <<<<"date", d>>>>

\* if self.config.date_header: date_header = [(b"date", current_date)]
\* else: date_header = []
DateHeaderList(d) == IF date_header THEN <<<<"date", d>>>> ELSE <<>>

\* _update_date_header_loop: while not self.should_exit: current_date =
\* get_date_header(); default_headers = date_header + encoded_headers; then wait
\* for the shutdown event until the next whole second.
DateLoopIterate ==
    /\ Runnable("date")
    /\ IF LoopGuard
       THEN /\ get_date_header
            /\ current_date' = cached_date'
            /\ default_headers' = DateHeaderList(current_date') \o encoded_headers
            /\ late_work' = (late_work \/ shutdown_event)
            /\ bg' = [bg EXCEPT !["date"] = AfterIteration]
       ELSE /\ bg' = [bg EXCEPT !["date"] = "done"]
            /\ UNCHANGED <<cached_date, cached_date_time, format_log, last_date_call,
                           current_date, default_headers, late_work>>
    /\ UNCHANGED <<now, last_notified, notify_current_time, notify_log>>
    /\ UNCHANGED <<poolvars, logvars, threadvars>>
    /\ UNCHANGED <<cfgvars, pc, srvvars, lifevars, statevars, sdvars, bg_cancel,
                   gather_timed_out, obsvars>>

NotifyDueAtInterval == now - last_notified >= timeout_notify

\* current_time = time.time()
\* if current_time - self.last_notified > self.config.timeout_notify
NotifyDue == now - last_notified > timeout_notify

\* _notify_callback_loop: while not self.should_exit: sample the clock; when
\* more than timeout_notify passed since last_notified, await callback_notify();
\* else wait for the shutdown event.
NotifyLoopIterate ==
    /\ Runnable("notify")
    /\ IF LoopGuard
       THEN /\ notify_current_time' = now
            /\ IF NotifyDue
               THEN /\ bg' = [bg EXCEPT !["notify"] = "callback"]
                    /\ notify_log' = Append(notify_log, now)
                    /\ late_work' = (late_work \/ shutdown_event)
               ELSE /\ bg' = [bg EXCEPT !["notify"] = AfterIteration]
                    /\ UNCHANGED <<notify_log, late_work>>
       ELSE /\ bg' = [bg EXCEPT !["notify"] = "done"]
            /\ UNCHANGED <<notify_current_time, notify_log, late_work>>
    /\ UNCHANGED <<now, cached_date, cached_date_time, default_headers, current_date,
                   last_notified, format_log, last_date_call>>
    /\ UNCHANGED <<poolvars, logvars, threadvars>>
    /\ UNCHANGED <<cfgvars, pc, srvvars, lifevars, statevars, sdvars, bg_cancel,
                   gather_timed_out, obsvars>>

\* callback_notify() returns; self.last_notified = current_time; then wait.
NotifyCallbackReturn ==
    /\ Suspended
    /\ bg["notify"] = "callback"
    /\ ~bg_cancel["notify"]
    /\ last_notified' = notify_current_time
    /\ bg' = [bg EXCEPT !["notify"] = AfterIteration]
    /\ UNCHANGED <<now, cached_date, cached_date_time, default_headers, current_date,
                   notify_current_time, format_log, last_date_call, notify_log, late_work>>
    /\ UNCHANGED <<poolvars, logvars, threadvars>>
    /\ UNCHANGED <<cfgvars, pc, srvvars, lifevars, statevars, sdvars, bg_cancel,
                   gather_timed_out, obsvars>>

LimitReachedStrict == total_requests > limit_max_requests

LimitReachedOffByOne == total_requests + 1 >= limit_max_requests

\* if self.server_state.total_requests >= self.config.limit_max_requests
LimitReached == total_requests >= limit_max_requests

\* _check_max_requests: while not self.should_exit: at the limit set should_exit
\* and the shutdown event and break; else wait up to 0.1 s.
MaxRequestsIterate ==
    /\ Runnable("max_requests")
    /\ IF ~LoopGuard
       THEN /\ bg' = [bg EXCEPT !["max_requests"] = "done"]
            /\ UNCHANGED <<should_exit, shutdown_event, max_requests_fired, late_work>>
       ELSE IF LimitReached
       THEN /\ should_exit' = TRUE
            /\ shutdown_event' = TRUE
            /\ max_requests_fired' = TRUE
            /\ late_work' = (late_work \/ shutdown_event)
            /\ bg' = [bg EXCEPT !["max_requests"] = "done"]
       ELSE /\ bg' = [bg EXCEPT !["max_requests"] = AfterIteration]
            /\ late_work' = (late_work \/ shutdown_event)
            /\ UNCHANGED <<should_exit, shutdown_event, max_requests_fired>>
    /\ UNCHANGED <<now, cached_date, cached_date_time, default_headers, current_date,
                   last_notified, notify_current_time, format_log, last_date_call,
                   notify_log>>
    /\ UNCHANGED <<poolvars, logvars, threadvars>>
    /\ UNCHANGED <<cfgvars, pc, started, force_exit, captured_signals, handlers_installed,
                   reraised, servers, servers_closed, sockets_closed, lifevars,
                   total_requests, connections, tasks, sdvars, bg_cancel, gather_timed_out,
                   main_loop_state, shutdown_runs, drain_outcome, drain_blocked, empty_at_shutdown,
                   exit_status>>

\* The shutdown event is set while the task is parked in wait_for: break.
LoopWake(l) ==
    /\ Suspended
    /\ bg[l] = "waiting"
    /\ shutdown_event
    /\ ~bg_cancel[l]
    /\ bg' = [bg EXCEPT ![l] = "done"]
    /\ UNCHANGED <<poolvars, logvars, clockvars, threadvars>>
    /\ UNCHANGED <<cfgvars, pc, srvvars, lifevars, statevars, sdvars, bg_cancel,
                   gather_timed_out, obsvars>>

\* The awaits at which a loop can be parked: the wait_for on the shutdown event
\* (all three loops) and `await self.config.callback_notify()` (notify loop).
SuspensionPoints == {"waiting", "callback"}

CancelCaughtOnlyWait(p) == p = "waiting"

\* Both awaits sit inside the loop's outer `try: ... except
\* asyncio.CancelledError: pass`, so a CancelledError thrown at either one is
\* caught in the coroutine.
CancelCaught(p) == p \in {"waiting", "callback"}

\* task.cancel() takes effect at the task's next step: a task that never ran
\* ends cancelled; a parked one gets CancelledError inside its try block
\* (except asyncio.CancelledError: pass) and returns.  cancel_escaped records a
\* loop whose CancelledError was not caught by the coroutine.
LoopCancelled(l) ==
    /\ Suspended
    /\ bg[l] \in {"new", "waiting", "callback"}
    /\ bg_cancel[l]
    /\ bg' = [bg EXCEPT ![l] = "done"]
    /\ bg_cancel' = [bg_cancel EXCEPT ![l] = FALSE]
    /\ cancel_escaped' = cancel_escaped \cup
                            (IF bg[l] \in SuspensionPoints /\ ~CancelCaught(bg[l])
                             THEN {l} ELSE {})
    /\ UNCHANGED <<poolvars, delivered, bind_attempts, clockvars, threadvars>>
    /\ UNCHANGED <<cfgvars, pc, srvvars, lifevars, statevars, sdvars, gather_timed_out,
                   obsvars>>

\* ------------------------------------- connection handlers (protocol layer)
\* A handler inserts itself into connections on accept.
Accept ==
    /\ Suspended
    /\ Listening
    /\ \E c \in ConnIds :
        /\ c \notin connections
        /\ \A d \in ConnIds : d < c => d \in connections
        /\ connections' = connections \cup {c}
    /\ UNCHANGED <<poolvars, logvars, clockvars, threadvars>>
    /\ UNCHANGED <<cfgvars, pc, srvvars, lifevars, total_requests, tasks, shutdown_event,
                   sdvars, bgvars, obsvars>>

\* A handler removes itself on close.
ConnectionLost ==
    /\ Suspended
    /\ \E c \in connections : connections' = connections \ {c}
    /\ UNCHANGED <<poolvars, logvars, clockvars, threadvars>>
    /\ UNCHANGED <<cfgvars, pc, srvvars, lifevars, total_requests, tasks, shutdown_event,
                   sdvars, bgvars, obsvars>>

\* A handler completes a request: total_requests += 1.
RequestComplete ==
    /\ Suspended
    /\ connections # {}
    /\ total_requests < MaxRequests
    /\ total_requests' = total_requests + 1
    /\ UNCHANGED <<poolvars, logvars, clockvars, threadvars>>
    /\ UNCHANGED <<cfgvars, pc, srvvars, lifevars, connections, tasks, shutdown_event,
                   sdvars, bgvars, obsvars>>

\* A handler spawns a request task and adds it to tasks.
TaskSpawn ==
    /\ Suspended
    /\ connections # {}
    /\ \E t \in TaskIds :
        /\ t \notin tasks
        /\ \A u \in TaskIds : u < t => u \in tasks
        /\ tasks' = tasks \cup {t}
    /\ UNCHANGED <<poolvars, logvars, clockvars, threadvars>>
    /\ UNCHANGED <<cfgvars, pc, srvvars, lifevars, total_requests, connections,
                   shutdown_event, sdvars, bgvars, obsvars>>

\* A request task ends (by itself or after cancel()) and its done callback
\* discards it from tasks.
TaskDone ==
    /\ Suspended
    /\ \E t \in tasks :
        /\ tasks' = tasks \ {t}
        /\ cancel_sent' = cancel_sent \ {t}
    /\ UNCHANGED <<poolvars, logvars, clockvars, threadvars>>
    /\ UNCHANGED <<cfgvars, pc, srvvars, lifevars, total_requests, connections,
                   shutdown_event, shutdown_requested, snapshot, todo, bgvars, obsvars>>

\* --------------------------------------------------------------- shutdown
ShutdownCloseServersNoClose ==
    /\ pc = "shutdown"
    /\ shutdown_runs' = shutdown_runs + 1
    /\ empty_at_shutdown' = (connections = {} /\ tasks = {})
    /\ pc' = "sd_close_sockets"
    /\ UNCHANGED <<poolvars, logvars, clockvars, threadvars>>
    /\ UNCHANGED <<cfgvars, srvvars, lifevars, statevars, sdvars, bgvars, main_loop_state,
                   drain_outcome, drain_blocked, max_requests_fired, exit_status>>

\* shutdown(): for server in self.servers: server.close()
ShutdownCloseServers ==
    /\ pc = "shutdown"
    /\ shutdown_runs' = shutdown_runs + 1
    /\ empty_at_shutdown' = (connections = {} /\ tasks = {})
    /\ servers_closed' = servers
    /\ pc' = "sd_close_sockets"
    /\ UNCHANGED <<poolvars, logvars, clockvars, threadvars>>
    /\ UNCHANGED <<cfgvars, started, should_exit, force_exit, captured_signals,
                   handlers_installed, reraised, servers, sockets_closed, lifevars,
                   statevars, sdvars, bgvars, main_loop_state, drain_outcome, drain_blocked,
                   max_requests_fired, exit_status>>

ShutdownCloseSocketsSkipped ==
    /\ pc = "sd_close_sockets"
    /\ pc' = "sd_snapshot"
    /\ UNCHANGED <<poolvars, logvars, clockvars, threadvars>>
    /\ UNCHANGED <<cfgvars, srvvars, lifevars, statevars, sdvars, bgvars, obsvars>>

\* for sock in sockets or []: sock.close()
ShutdownCloseSockets ==
    /\ pc = "sd_close_sockets"
    /\ sockets_closed' = sockets.items
    /\ pc' = "sd_snapshot"
    /\ UNCHANGED <<poolvars, logvars, clockvars, threadvars>>
    /\ UNCHANGED <<cfgvars, started, should_exit, force_exit, captured_signals,
                   handlers_installed, reraised, servers, servers_closed, lifevars,
                   statevars, sdvars, bgvars, obsvars>>

\* list(self.server_state.connections)
ShutdownSnapshot ==
    /\ pc = "sd_snapshot"
    /\ snapshot' = connections
    /\ todo' = connections
    /\ pc' = "sd_request"
    /\ UNCHANGED <<poolvars, logvars, clockvars, threadvars>>
    /\ UNCHANGED <<cfgvars, srvvars, lifevars, statevars, shutdown_requested, cancel_sent,
                   bgvars, obsvars>>

ShutdownRequestLive ==
    /\ pc = "sd_request"
    /\ todo # {}
    /\ \E c \in todo, leaves \in BOOLEAN :
        /\ shutdown_requested' = shutdown_requested \cup {c}
        /\ connections' = IF leaves THEN connections \ {c} ELSE connections
        /\ todo' = IF leaves THEN {} ELSE todo \ {c}
    /\ UNCHANGED <<poolvars, logvars, clockvars, threadvars>>
    /\ UNCHANGED <<cfgvars, pc, srvvars, lifevars, total_requests, tasks, shutdown_event,
                   snapshot, cancel_sent, bgvars, obsvars>>

\* for connection in <snapshot>: connection.shutdown()
\* One iteration.  shutdown() is the handler's own code and runs synchronously:
\* an idle handler may close at once and take itself out of the live set
\* (`leaves`), or stay in it until its response is complete.
ShutdownRequest ==
    /\ pc = "sd_request"
    /\ todo # {}
    /\ \E c \in todo, leaves \in BOOLEAN :
        /\ shutdown_requested' = shutdown_requested \cup {c}
        /\ connections' = IF leaves THEN connections \ {c} ELSE connections
        /\ todo' = todo \ {c}
    /\ UNCHANGED <<poolvars, logvars, clockvars, threadvars>>
    /\ UNCHANGED <<cfgvars, pc, srvvars, lifevars, total_requests, tasks, shutdown_event,
                   snapshot, cancel_sent, bgvars, obsvars>>

\* The loop over the snapshot ends: await asyncio.sleep(0.1)
ShutdownRequestsDone ==
    /\ pc = "sd_request"
    /\ todo = {}
    /\ pc' = "sd_sleep"
    /\ UNCHANGED <<poolvars, logvars, clockvars, threadvars>>
    /\ UNCHANGED <<cfgvars, srvvars, lifevars, statevars, sdvars, bgvars, obsvars>>

\* Where _wait_tasks_to_complete parks next, entering at `stage`:
\*   if connections and not force_exit: while ...: await sleep(0.1)
\*   if tasks and not force_exit:       while ...: await sleep(0.1)
\*   for server in self.servers: await server.wait_closed()
\* wait_closed returns at once when no connection is open; with connections
\* open it waits for them (Python 3.12 and later) or returns at once (before):
\* `blocks` is the outcome of the running build.
DrainPc(stage, blocks) ==
    IF stage = "conns" /\ connections # {} /\ ~force_exit THEN "sd_wait_conns"
    ELSE IF stage \in {"conns", "tasks"} /\ tasks # {} /\ ~force_exit THEN "sd_wait_tasks"
    ELSE IF blocks THEN "sd_wait_closed"
    ELSE "sd_lifespan"

WaitClosedOutcomes == IF connections = {} \/ servers = {} THEN {FALSE} ELSE BOOLEAN

\* The drain wait moves to `to`: it parks again, or _wait_tasks_to_complete
\* returns and wait_for with it.
DrainMove(to) ==
    /\ pc' = to
    /\ drain_outcome' = IF to = "sd_lifespan" THEN "completed" ELSE "waiting"
    /\ drain_blocked' = (drain_blocked \/ to # "sd_lifespan")

\* sleep(0.1) is over:
\* await wait_for(self._wait_tasks_to_complete(), timeout=timeout_graceful_shutdown)
ShutdownDrainEnter ==
    /\ pc = "sd_sleep"
    /\ \E blocks \in WaitClosedOutcomes : DrainMove(DrainPc("conns", blocks))
    /\ UNCHANGED <<poolvars, logvars, clockvars, threadvars>>
    /\ UNCHANGED <<cfgvars, srvvars, lifevars, statevars, sdvars, bgvars, main_loop_state,
                   shutdown_runs, empty_at_shutdown, max_requests_fired, exit_status>>

\* The while loop over connections ends after a sleep.
DrainConnsLeft ==
    /\ pc = "sd_wait_conns"
    /\ ~(connections # {} /\ ~force_exit)
    /\ \E blocks \in WaitClosedOutcomes : DrainMove(DrainPc("tasks", blocks))
    /\ UNCHANGED <<poolvars, logvars, clockvars, threadvars>>
    /\ UNCHANGED <<cfgvars, srvvars, lifevars, statevars, sdvars, bgvars, main_loop_state,
                   shutdown_runs, empty_at_shutdown, max_requests_fired, exit_status>>

\* The while loop over tasks ends after a sleep.
DrainTasksLeft ==
    /\ pc = "sd_wait_tasks"
    /\ ~(tasks # {} /\ ~force_exit)
    /\ \E blocks \in WaitClosedOutcomes : DrainMove(DrainPc("closed", blocks))
    /\ UNCHANGED <<poolvars, logvars, clockvars, threadvars>>
    /\ UNCHANGED <<cfgvars, srvvars, lifevars, statevars, sdvars, bgvars, main_loop_state,
                   shutdown_runs, empty_at_shutdown, max_requests_fired, exit_status>>

\* The last connection of the listeners closed: wait_closed() returns.
DrainWaitClosedReturn ==
    /\ pc = "sd_wait_closed"
    /\ connections = {}
    /\ DrainMove("sd_lifespan")
    /\ UNCHANGED <<poolvars, logvars, clockvars, threadvars>>
    /\ UNCHANGED <<cfgvars, srvvars, lifevars, statevars, sdvars, bgvars, main_loop_state,
                   shutdown_runs, empty_at_shutdown, max_requests_fired, exit_status>>

DrainDeadlineNone == "None"

\* timeout=self.config.timeout_graceful_shutdown
DrainDeadline == timeout_graceful_shutdown

DrainTimeoutNoCancel ==
    /\ pc \in {"sd_wait_conns", "sd_wait_tasks", "sd_wait_closed"}
    /\ DrainDeadline # "None"
    /\ drain_outcome' = "timeout"
    /\ pc' = "sd_lifespan"
    /\ UNCHANGED <<poolvars, logvars, clockvars, threadvars>>
    /\ UNCHANGED <<cfgvars, srvvars, lifevars, statevars, sdvars, bgvars, main_loop_state,
                   shutdown_runs, drain_blocked, empty_at_shutdown, max_requests_fired,
                   exit_status>>

\* The deadline passes while the drain wait is parked: except TimeoutError:
\* for t in self.server_state.tasks: t.cancel(msg=...)
DrainTimeout ==
    /\ pc \in {"sd_wait_conns", "sd_wait_tasks", "sd_wait_closed"}
    /\ DrainDeadline # "None"
    /\ cancel_sent' = cancel_sent \cup tasks
    /\ drain_outcome' = "timeout"
    /\ pc' = "sd_lifespan"
    /\ UNCHANGED <<poolvars, logvars, clockvars, threadvars>>
    /\ UNCHANGED <<cfgvars, srvvars, lifevars, statevars, shutdown_requested, snapshot,
                   todo, bgvars, main_loop_state, shutdown_runs, drain_blocked,
                   empty_at_shutdown, max_requests_fired, exit_status>>

ShutdownLifespanAlways ==
    /\ pc = "sd_lifespan"
    /\ lifespan_shutdown_calls' = lifespan_shutdown_calls + 1
    /\ pc' = "capture_exit"
    /\ UNCHANGED <<poolvars, logvars, clockvars, threadvars>>
    /\ UNCHANGED <<cfgvars, srvvars, lifespan_should_exit, statevars, sdvars, bgvars,
                   obsvars>>

\* if not self.force_exit: await self.lifespan.shutdown(); shutdown returns and
\* _serve with it.
ShutdownLifespan ==
    /\ pc = "sd_lifespan"
    /\ lifespan_shutdown_calls' =
         IF force_exit THEN lifespan_shutdown_calls ELSE lifespan_shutdown_calls + 1
    /\ pc' = "capture_exit"
    /\ UNCHANGED <<poolvars, logvars, clockvars, threadvars>>
    /\ UNCHANGED <<cfgvars, srvvars, lifespan_should_exit, statevars, sdvars, bgvars,
                   obsvars>>

\* ------------------------------------------------------------------- Next
\* The steps of the serve coroutine, but for the two that only a signal makes
\* possible: the return of a parked wait_closed() (the drain reaches
\* wait_closed() with connections open only when force_exit cut its loops
\* short) and the re-raise of a captured signal.
ServeStepUnforced ==
    \/ CaptureSignalsEnter
    \/ StartupLifespan
    \/ StartupBind
    \/ StartupBindFail
    \/ StartupSysExit
    \/ ServeAfterStartup
    \/ MainLoopStart
    \/ MainLoopWake
    \/ MainLoopGatherDone
    \/ MainLoopGatherTimeout
    \/ ShutdownCloseServers
    \/ ShutdownCloseSockets
    \/ ShutdownSnapshot
    \/ ShutdownRequest
    \/ ShutdownRequestsDone
    \/ ShutdownDrainEnter
    \/ DrainConnsLeft
    \/ DrainTasksLeft
    \/ DrainTimeout
    \/ ShutdownLifespan
    \/ CaptureSignalsExit
    \/ ServeReturn

ServeStep ==
    \/ ServeStepUnforced
    \/ DrainWaitClosedReturn
    \/ ReraiseCaptured

LoopStep ==
    \/ DateLoopIterate
    \/ NotifyLoopIterate
    \/ NotifyCallbackReturn
    \/ MaxRequestsIterate
    \/ \E l \in Loops : LoopWake(l)
    \/ \E l \in Loops : LoopCancelled(l)

HandlerStep ==
    \/ Accept
    \/ ConnectionLost
    \/ RequestComplete
    \/ TaskSpawn
    \/ TaskDone

Next ==
    \/ ServeStep
    \/ LoopStep
    \/ HandlerStep
    \/ Signal
    \/ ExternalShutdown

\* The clock stays within the second in which the server was constructed;
\* ClockSpec below lets it advance.
Spec == Init /\ [][Next]_vars

\* The event loop runs every ready callback and fires every due timer: each
\* step of the serve coroutine and of the background tasks that stays possible
\* is eventually taken.  Nothing obliges handlers to close, requests to
\* complete or signals to arrive.
Fairness ==
    /\ WF_vars(ServeStep)
    /\ WF_vars(DateLoopIterate \/ LoopWake("date") \/ LoopCancelled("date"))
    /\ WF_vars(NotifyLoopIterate \/ NotifyCallbackReturn \/ LoopWake("notify")
               \/ LoopCancelled("notify"))
    /\ WF_vars(MaxRequestsIterate \/ LoopWake("max_requests")
               \/ LoopCancelled("max_requests"))

\* Progress is checked for a server that binds its own listener (sockets is
\* None), with every combination of the optional loops and of the drain deadline.
InitFair == Init /\ sockets.is_none

FairSpec == InitFair /\ [][Next]_vars /\ Fairness

\* The drain of shutdown() under fair scheduling: a server without the optional
\* loops (no notify callback, no request ceiling), with and without a drain
\* deadline, stopped by signals or by an outside caller.
InitDrain == InitFair /\ ~callback_notify /\ limit_max_requests = NoLimit

NextDrain ==
    \/ ServeStep
    \/ DateLoopIterate
    \/ LoopWake("date")
    \/ LoopCancelled("date")
    \/ HandlerStep
    \/ Signal
    \/ ExternalShutdown

DrainFairSpec == InitDrain /\ [][NextDrain]_vars /\ Fairness

\* A run in which nobody but the server itself asks it to stop: no OS signal,
\* no external caller.
NextQuiet ==
    \/ ServeStepUnforced
    \/ LoopStep
    \/ HandlerStep

QuietFairSpec == Init /\ [][NextQuiet]_vars /\ Fairness

\* serve called with every combination of listener sources (a socket list that
\* may be empty, config.fd, config.uds, neither) on the main thread or on
\* another one, with both optional loops on and a finite drain deadline.
InitAnySource ==
    /\ sockets \in {[is_none |-> TRUE, items |-> {}],
                    [is_none |-> FALSE, items |-> {}],
                    [is_none |-> FALSE, items |-> SocketIds]}
    /\ config_fd \in {"None", "fd"}
    /\ config_uds \in {"None", "path"}
    /\ main_thread \in BOOLEAN
    /\ callback_notify = TRUE
    /\ limit_max_requests = Limit
    /\ timeout_graceful_shutdown = "finite"
    /\ date_header = TRUE /\ encoded_headers = StaticHeaders
    /\ timeout_notify = TimeoutNotify
    /\ now = Epoch
    /\ event_pool_max_size = MaxPoolSize
    /\ InitServer
    /\ InitServerState
    /\ InitCallers

AnySourceSpec == InitAnySource /\ [][Next]_vars

\* ------------------------------------------ the loops under a running clock
\* A server with the notify callback and a request ceiling configured, with and
\* without the date header and static headers, whose clock advances while the
\* three loops run, until a caller of the embedding program asks it to stop and
\* main_loop has collected its tasks.
InitClock ==
    /\ sockets = [is_none |-> TRUE, items |-> {}]
    /\ callback_notify = TRUE
    /\ limit_max_requests = Limit
    /\ timeout_graceful_shutdown = "None"
    /\ config_fd = "None" /\ config_uds = "None"
    /\ main_thread = TRUE
    /\ date_header \in BOOLEAN
    /\ encoded_headers \in {<<>>, StaticHeaders}
    /\ timeout_notify = TimeoutNotify
    /\ now = Epoch
    /\ event_pool_max_size = MaxPoolSize
    /\ InitServer
    /\ InitServerState
    /\ InitCallers

ClockNext ==
    \/ CaptureSignalsEnter
    \/ StartupLifespan
    \/ StartupBind
    \/ ServeAfterStartup
    \/ MainLoopStart
    \/ MainLoopWake
    \/ MainLoopGatherDone
    \/ MainLoopGatherTimeout
    \/ ExternalShutdown
    \/ LoopStep
    \/ GetDateHeader
    \/ Tick

ClockSpec == InitClock /\ [][ClockNext]_vars

\* ------------------------------- a notify callback that outlives its cancel
\* config.callback_notify is a coroutine function of the embedding program.
\* The CancelledError that task.cancel() throws into the notify task arrives
\* inside the callback's own await; a callback that catches it (to finish a
\* write, to retry) keeps running, and the cancel request is spent.
CallbackSwallowsCancel ==
    /\ Suspended
    /\ bg["notify"] = "callback"
    /\ bg_cancel["notify"]
    /\ bg_cancel' = [bg_cancel EXCEPT !["notify"] = FALSE]
    /\ UNCHANGED <<poolvars, logvars, clockvars, threadvars>>
    /\ UNCHANGED <<cfgvars, pc, srvvars, lifevars, statevars, sdvars, bg, gather_timed_out,
                   obsvars>>

\* serve up to the end of main_loop, with the three loops, stopped by a caller
\* of the embedding program.
StubbornNext ==
    \/ CaptureSignalsEnter
    \/ StartupLifespan
    \/ StartupBind
    \/ ServeAfterStartup
    \/ MainLoopStart
    \/ MainLoopWake
    \/ MainLoopGatherDone
    \/ MainLoopGatherTimeout
    \/ ExternalShutdown
    \/ LoopStep
    \/ CallbackSwallowsCancel
    \/ Tick

\* The event loop runs the serve coroutine and the loops' own code, and fires
\* the one-second timer of wait_for; nothing obliges the callback to return.
StubbornFairness ==
    /\ WF_vars(CaptureSignalsEnter \/ StartupLifespan \/ StartupBind \/ ServeAfterStartup
               \/ MainLoopStart \/ MainLoopWake \/ MainLoopGatherDone
               \/ MainLoopGatherTimeout)
    /\ WF_vars(DateLoopIterate \/ LoopWake("date") \/ LoopCancelled("date"))
    /\ WF_vars(NotifyLoopIterate \/ LoopWake("notify") \/ LoopCancelled("notify"))
    /\ WF_vars(MaxRequestsIterate \/ LoopWake("max_requests")
               \/ LoopCancelled("max_requests"))

InitStubborn == InitClock /\ date_header /\ encoded_headers = StaticHeaders

StubbornFairSpec == InitStubborn /\ [][StubbornNext]_vars /\ StubbornFairness

\* ------------------------------------------------------------ event pool
\* The event pool of one ServerState, used by callers that hold references to
\* the Event objects acquire_event handed them.  A caller may set an Event it
\* holds at any time, also after releasing it, and may release it again.
Last(q) == q[Len(q)]

\* Every Event object acquire_event created so far.
Allocated == 1..allocated

Min(a, b) == IF a < b THEN a ELSE b

acquire_eventNoClear ==
    IF event_pool # <<>>
    THEN /\ event_pool' = SubSeq(event_pool, 1, Len(event_pool) - 1)
         /\ UNCHANGED event_is_set
         /\ last_acquired' = [event |-> Last(event_pool),
                               set_in_pool |-> event_is_set[Last(event_pool)],
                               was_set |-> event_is_set[Last(event_pool)],
                               fresh |-> FALSE,
                               released_before |-> Last(event_pool) \in released]
         /\ UNCHANGED allocated
    ELSE /\ allocated < MaxEvents
         /\ allocated' = allocated + 1
         /\ last_acquired' = [event |-> allocated + 1,
                               set_in_pool |-> FALSE,
                               was_set |-> event_is_set[allocated + 1],
                               fresh |-> TRUE,
                               released_before |-> (allocated + 1) \in released]
         /\ UNCHANGED <<event_pool, event_is_set>>

acquire_eventPopFirst ==
    IF event_pool # <<>>
    THEN /\ event_pool' = Tail(event_pool)
         /\ event_is_set' = [event_is_set EXCEPT ![Head(event_pool)] = FALSE]
         /\ last_acquired' = [event |-> Head(event_pool),
                               set_in_pool |-> event_is_set[Head(event_pool)],
                               was_set |-> event_is_set'[Head(event_pool)],
                               fresh |-> FALSE,
                               released_before |-> Head(event_pool) \in released]
         /\ UNCHANGED allocated
    ELSE /\ allocated < MaxEvents
         /\ allocated' = allocated + 1
         /\ last_acquired' = [event |-> allocated + 1,
                               set_in_pool |-> FALSE,
                               was_set |-> event_is_set[allocated + 1],
                               fresh |-> TRUE,
                               released_before |-> (allocated + 1) \in released]
         /\ UNCHANGED <<event_pool, event_is_set>>

\* acquire_event(), run without interruption: pop the last pooled Event and
\* clear it, or create one.  last_acquired records the Event returned, its flag
\* while it was pooled, its flag at the return, and whether release_event had
\* ever been given it.
acquire_event ==
    IF event_pool # <<>>
    THEN /\ event_pool' = SubSeq(event_pool, 1, Len(event_pool) - 1)
         /\ event_is_set' = [event_is_set EXCEPT ![Last(event_pool)] = FALSE]
         /\ last_acquired' = [event |-> Last(event_pool),
                               set_in_pool |-> event_is_set[Last(event_pool)],
                               was_set |-> event_is_set'[Last(event_pool)],
                               fresh |-> FALSE,
                               released_before |-> Last(event_pool) \in released]
         /\ UNCHANGED allocated
    ELSE /\ allocated < MaxEvents
         /\ allocated' = allocated + 1
         /\ last_acquired' = [event |-> allocated + 1,
                               set_in_pool |-> FALSE,
                               was_set |-> event_is_set[allocated + 1],
                               fresh |-> TRUE,
                               released_before |-> (allocated + 1) \in released]
         /\ UNCHANGED <<event_pool, event_is_set>>

release_eventUnbounded(e) ==
    /\ event_is_set' = [event_is_set EXCEPT ![e] = FALSE]
    /\ event_pool' = Append(event_pool, e)
    /\ last_released' = [event |-> e, pooled |-> TRUE, set_before |-> event_is_set[e],
                         set_after |-> event_is_set'[e]]
    /\ released' = released \cup {e}

release_eventOffByOne(e) ==
    /\ IF Len(event_pool) <= event_pool_max_size
       THEN /\ event_is_set' = [event_is_set EXCEPT ![e] = FALSE]
            /\ event_pool' = Append(event_pool, e)
       ELSE UNCHANGED <<event_pool, event_is_set>>
    /\ last_released' = [event |-> e,
                         pooled |-> Len(event_pool) <= event_pool_max_size,
                         set_before |-> event_is_set[e],
                         set_after |-> event_is_set'[e]]
    /\ released' = released \cup {e}

release_eventBelowHalf(e) ==
    /\ IF 2 * Len(event_pool) < event_pool_max_size
       THEN /\ event_is_set' = [event_is_set EXCEPT ![e] = FALSE]
            /\ event_pool' = Append(event_pool, e)
       ELSE UNCHANGED <<event_pool, event_is_set>>
    /\ last_released' = [event |-> e,
                         pooled |-> 2 * Len(event_pool) < event_pool_max_size,
                         set_before |-> event_is_set[e],
                         set_after |-> event_is_set'[e]]
    /\ released' = released \cup {e}

\* release_event(event): if the pool is below its capacity, clear the Event
\* and append it; otherwise leave both alone.  last_released records the Event
\* given, whether it was appended, and its flag before and after the call.
release_event(e) ==
    /\ IF Len(event_pool) < event_pool_max_size
       THEN /\ event_is_set' = [event_is_set EXCEPT ![e] = FALSE]
            /\ event_pool' = Append(event_pool, e)
       ELSE UNCHANGED <<event_pool, event_is_set>>
    /\ last_released' = [event |-> e,
                         pooled |-> Len(event_pool) < event_pool_max_size,
                         set_before |-> event_is_set[e],
                         set_after |-> event_is_set'[e]]
    /\ released' = released \cup {e}

AcquireEvent ==
    /\ ~race_started
    /\ acquire_event
    /\ held' = held \cup {last_acquired'.event}
    /\ UNCHANGED <<event_pool_max_size, last_released, released, testvars, racevars>>
    /\ UNCHANGED <<cfgvars, pc, srvvars, lifevars, statevars, sdvars, bgvars, obsvars,
                   logvars, clockvars, threadvars>>

ReleaseEvent ==
    /\ ~race_started
    /\ \E e \in Allocated :
        /\ release_event(e)
        /\ held' = held \ {e}
    /\ UNCHANGED <<event_pool_max_size, allocated, last_acquired, testvars, racevars>>
    /\ UNCHANGED <<cfgvars, pc, srvvars, lifevars, statevars, sdvars, bgvars, obsvars,
                   logvars, clockvars, threadvars>>

\* event.set() by a caller holding a reference to the Event.
SetEvent ==
    /\ ~race_started
    /\ \E e \in Allocated : event_is_set' = [event_is_set EXCEPT ![e] = TRUE]
    /\ UNCHANGED <<event_pool, event_pool_max_size, held, allocated, last_acquired,
                   last_released, released, testvars, racevars>>
    /\ UNCHANGED <<cfgvars, pc, srvvars, lifevars, statevars, sdvars, bgvars, obsvars,
                   logvars, clockvars, threadvars>>

\* A Server that has not started, beside the ServerState whose pool is used.
InitIdleServer ==
    /\ sockets = [is_none |-> TRUE, items |-> {}]
    /\ callback_notify = FALSE
    /\ limit_max_requests = NoLimit
    /\ timeout_graceful_shutdown = "None"
    /\ config_fd = "None" /\ config_uds = "None"
    /\ main_thread = TRUE
    /\ date_header = TRUE /\ encoded_headers = StaticHeaders
    /\ timeout_notify = TimeoutNotify
    /\ now = Epoch
    /\ InitServer
    /\ InitServerState

\* A fresh ServerState whose capacity the caller fixed before using the pool
\* (state._event_pool_max_size = n).
PoolInit ==
    /\ event_pool_max_size \in 0..MaxPoolSize
    /\ InitIdleServer
    /\ InitCallers

PoolNext ==
    \/ AcquireEvent
    \/ ReleaseEvent
    \/ SetEvent

PoolSpec == PoolInit /\ [][PoolNext]_vars

\* ---- acquire N Events, then release them all (test_stress_test_pool)
\* events = []; for _ in range(N): events.append(state.acquire_event())
TestAcquire ==
    /\ test_phase = "acquire"
    /\ Len(test_events) < test_n
    /\ acquire_event
    /\ test_events' = Append(test_events, last_acquired'.event)
    /\ held' = held \cup {last_acquired'.event}
    /\ UNCHANGED <<event_pool_max_size, last_released, released, test_phase, test_n,
                   test_todo, racevars>>
    /\ UNCHANGED <<cfgvars, pc, srvvars, lifevars, statevars, sdvars, bgvars, obsvars,
                   logvars, clockvars, threadvars>>

\* The first loop is over; for event in events: ...
TestAcquired ==
    /\ test_phase = "acquire"
    /\ Len(test_events) = test_n
    /\ test_phase' = "release"
    /\ test_todo' = test_events
    /\ UNCHANGED <<event_pool, event_pool_max_size, held, event_is_set, allocated, last_acquired,
                   last_released, released, test_n, test_events, racevars>>
    /\ UNCHANGED <<cfgvars, pc, srvvars, lifevars, statevars, sdvars, bgvars, obsvars,
                   logvars, clockvars, threadvars>>

\* event.set()  -- the Event was used; the caller may also release it unused
TestUse ==
    /\ test_phase = "release"
    /\ test_todo # <<>>
    /\ ~event_is_set[Head(test_todo)]
    /\ event_is_set' = [event_is_set EXCEPT ![Head(test_todo)] = TRUE]
    /\ UNCHANGED <<event_pool, event_pool_max_size, held, allocated, last_acquired,
                   last_released, released, testvars, racevars>>
    /\ UNCHANGED <<cfgvars, pc, srvvars, lifevars, statevars, sdvars, bgvars, obsvars,
                   logvars, clockvars, threadvars>>

\* state.release_event(event), for the next Event of the list
TestRelease ==
    /\ test_phase = "release"
    /\ test_todo # <<>>
    /\ release_event(Head(test_todo))
    /\ test_todo' = Tail(test_todo)
    /\ held' = held \ {Head(test_todo)}
    /\ UNCHANGED <<event_pool_max_size, allocated, last_acquired, test_phase, test_n,
                   test_events, racevars>>
    /\ UNCHANGED <<cfgvars, pc, srvvars, lifevars, statevars, sdvars, bgvars, obsvars,
                   logvars, clockvars, threadvars>>

\* The second loop is over.
TestReleased ==
    /\ test_phase = "release"
    /\ test_todo = <<>>
    /\ test_phase' = "done"
    /\ UNCHANGED <<event_pool, event_pool_max_size, held, event_is_set, allocated, last_acquired,
                   last_released, released, test_n, test_events, test_todo, racevars>>
    /\ UNCHANGED <<cfgvars, pc, srvvars, lifevars, statevars, sdvars, bgvars, obsvars,
                   logvars, clockvars, threadvars>>

\* A fresh ServerState with capacity C, about to acquire and release N Events.
StressInit ==
    /\ event_pool_max_size \in 0..MaxPoolSize
    /\ InitIdleServer
    /\ test_phase = "acquire"
    /\ test_n \in 0..MaxEvents
    /\ test_events = <<>> /\ test_todo = <<>>
    /\ race_started = FALSE
    /\ caller_pc = [c \in Callers |-> "idle"]
    /\ caller_result = [c \in Callers |-> NoResult]
    /\ thread_pc = [c \in Callers |-> "idle"]
    /\ thread_local = [c \in Callers |-> NoLocals]

StressNext ==
    \/ TestAcquire
    \/ TestAcquired
    \/ TestUse
    \/ TestRelease
    \/ TestReleased

StressSpec == StressInit /\ [][StressNext]_vars

\* ---- two threads inside acquire_event at once
\* Both threads call acquire_event while the pool holds its last Event.
RaceStart ==
    /\ ~race_started
    /\ Len(event_pool) = 1
    /\ race_started' = TRUE
    /\ caller_pc' = [c \in Callers |-> "check"]
    /\ UNCHANGED <<event_pool, event_pool_max_size, held, event_is_set, allocated, last_acquired,
                   last_released, released, testvars, caller_result>>
    /\ UNCHANGED <<cfgvars, pc, srvvars, lifevars, statevars, sdvars, bgvars, obsvars,
                   logvars, clockvars, threadvars>>

\* if self._event_pool:
RaceCheck(c) ==
    /\ caller_pc[c] = "check"
    /\ caller_pc' = [caller_pc EXCEPT ![c] = IF event_pool # <<>> THEN "pop" ELSE "fresh"]
    /\ UNCHANGED <<event_pool, event_pool_max_size, held, event_is_set, allocated, last_acquired,
                   last_released, released, testvars, race_started, caller_result>>
    /\ UNCHANGED <<cfgvars, pc, srvvars, lifevars, statevars, sdvars, bgvars, obsvars,
                   logvars, clockvars, threadvars>>

RacePopPeeks(c) ==
    /\ caller_pc[c] = "pop"
    /\ IF event_pool # <<>>
       THEN /\ caller_result' = [caller_result EXCEPT ![c].event = Last(event_pool)]
            /\ caller_pc' = [caller_pc EXCEPT ![c] = "clear"]
            /\ UNCHANGED event_pool
       ELSE /\ caller_pc' = [caller_pc EXCEPT ![c] = "fresh"]
            /\ UNCHANGED <<event_pool, caller_result>>
    /\ UNCHANGED <<event_pool_max_size, held, event_is_set, allocated, last_acquired,
                   last_released, released, testvars, race_started>>
    /\ UNCHANGED <<cfgvars, pc, srvvars, lifevars, statevars, sdvars, bgvars, obsvars,
                   logvars, clockvars, threadvars>>

\* try: event = self._event_pool.pop()
\* except IndexError: pass     -- the other thread emptied the pool
RacePop(c) ==
    /\ caller_pc[c] = "pop"
    /\ IF event_pool # <<>>
       THEN /\ caller_result' = [caller_result EXCEPT ![c].event = Last(event_pool)]
            /\ event_pool' = SubSeq(event_pool, 1, Len(event_pool) - 1)
            /\ caller_pc' = [caller_pc EXCEPT ![c] = "clear"]
       ELSE /\ caller_pc' = [caller_pc EXCEPT ![c] = "fresh"]
            /\ UNCHANGED <<event_pool, caller_result>>
    /\ UNCHANGED <<event_pool_max_size, held, event_is_set, allocated, last_acquired,
                   last_released, released, testvars, race_started>>
    /\ UNCHANGED <<cfgvars, pc, srvvars, lifevars, statevars, sdvars, bgvars, obsvars,
                   logvars, clockvars, threadvars>>

\* event.clear(); return event
RaceClear(c) ==
    /\ caller_pc[c] = "clear"
    /\ event_is_set' = [event_is_set EXCEPT ![caller_result[c].event] = FALSE]
    /\ caller_result' = [caller_result EXCEPT
                            ![c].fresh = FALSE,
                            ![c].is_set = event_is_set'[caller_result[c].event]]
    /\ caller_pc' = [caller_pc EXCEPT ![c] = "done"]
    /\ held' = held \cup {caller_result[c].event}
    /\ UNCHANGED <<event_pool, event_pool_max_size, allocated, last_acquired,
                   last_released, released, testvars, race_started>>
    /\ UNCHANGED <<cfgvars, pc, srvvars, lifevars, statevars, sdvars, bgvars, obsvars,
                   logvars, clockvars, threadvars>>

\* return asyncio.Event()
RaceFresh(c) ==
    /\ caller_pc[c] = "fresh"
    /\ allocated < MaxEvents
    /\ allocated' = allocated + 1
    /\ caller_result' = [caller_result EXCEPT ![c] =
                            [event |-> allocated + 1, fresh |-> TRUE,
                             is_set |-> event_is_set[allocated + 1], error |-> FALSE]]
    /\ caller_pc' = [caller_pc EXCEPT ![c] = "done"]
    /\ held' = held \cup {allocated + 1}
    /\ UNCHANGED <<event_pool, event_pool_max_size, event_is_set, last_acquired,
                   last_released, released, testvars, race_started>>
    /\ UNCHANGED <<cfgvars, pc, srvvars, lifevars, statevars, sdvars, bgvars, obsvars,
                   logvars, clockvars, threadvars>>

\* One thread fills the pool first; then the two threads race.
RaceNext ==
    \/ AcquireEvent
    \/ ReleaseEvent
    \/ SetEvent
    \/ RaceStart
    \/ \E c \in Callers : RaceCheck(c)
    \/ \E c \in Callers : RacePop(c)
    \/ \E c \in Callers : RaceClear(c)
    \/ \E c \in Callers : RaceFresh(c)

RaceSpec == PoolInit /\ [][RaceNext]_vars

\* ---- two threads inside release_event at once
\* The Event objects in the pool.
Pooled == {event_pool[i] : i \in 1..Len(event_pool)}

\* How many times Event e is in the pool.
Copies(e) == Cardinality({i \in 1..Len(event_pool) : event_pool[i] = e})

\* Two threads call release_event, each with an Event of its own that it holds
\* and that is not in the pool.
ReleaseRaceStart ==
    /\ ~race_started
    /\ race_started' = TRUE
    /\ \E e1, e2 \in held \ Pooled :
        /\ e1 # e2
        /\ thread_local' = [c \in Callers |->
                               [NoLocals EXCEPT !.event = IF c = "caller1" THEN e1 ELSE e2]]
    /\ thread_pc' = [c \in Callers |-> "check"]
    /\ UNCHANGED <<event_pool, event_pool_max_size, event_is_set, allocated, last_acquired,
                   last_released, released, held, testvars, caller_pc, caller_result>>
    /\ UNCHANGED <<cfgvars, pc, srvvars, lifevars, statevars, sdvars, bgvars, obsvars,
                   logvars, clockvars>>

\* if len(self._event_pool) < self._event_pool_max_size:
\* a full pool ends the call, the Event is dropped.
RelCheck(c) ==
    /\ thread_pc[c] = "check"
    /\ IF Len(event_pool) < event_pool_max_size
       THEN /\ thread_pc' = [thread_pc EXCEPT ![c] = "clear"]
            /\ UNCHANGED <<held, released>>
       ELSE /\ thread_pc' = [thread_pc EXCEPT ![c] = "done"]
            /\ held' = held \ {thread_local[c].event}
            /\ released' = released \cup {thread_local[c].event}
    /\ UNCHANGED <<event_pool, event_pool_max_size, event_is_set, allocated, last_acquired,
                   last_released, testvars, racevars, thread_local>>
    /\ UNCHANGED <<cfgvars, pc, srvvars, lifevars, statevars, sdvars, bgvars, obsvars,
                   logvars, clockvars>>

\* event.clear()
RelClear(c) ==
    /\ thread_pc[c] = "clear"
    /\ event_is_set' = [event_is_set EXCEPT ![thread_local[c].event] = FALSE]
    /\ thread_pc' = [thread_pc EXCEPT ![c] = "append"]
    /\ UNCHANGED <<event_pool, event_pool_max_size, allocated, last_acquired,
                   last_released, released, held, testvars, racevars, thread_local>>
    /\ UNCHANGED <<cfgvars, pc, srvvars, lifevars, statevars, sdvars, bgvars, obsvars,
                   logvars, clockvars>>

\* self._event_pool.append(event)
RelAppend(c) ==
    /\ thread_pc[c] = "append"
    /\ event_pool' = Append(event_pool, thread_local[c].event)
    /\ held' = held \ {thread_local[c].event}
    /\ released' = released \cup {thread_local[c].event}
    /\ thread_pc' = [thread_pc EXCEPT ![c] = "done"]
    /\ UNCHANGED <<event_pool_max_size, event_is_set, allocated, last_acquired,
                   last_released, testvars, racevars, thread_local>>
    /\ UNCHANGED <<cfgvars, pc, srvvars, lifevars, statevars, sdvars, bgvars, obsvars,
                   logvars, clockvars>>

\* One thread acquires and releases first; then the two threads race.
ReleaseRaceNext ==
    \/ AcquireEvent
    \/ ReleaseEvent
    \/ SetEvent
    \/ ReleaseRaceStart
    \/ \E c \in Callers : RelCheck(c)
    \/ \E c \in Callers : RelClear(c)
    \/ \E c \in Callers : RelAppend(c)

ReleaseRaceSpec == PoolInit /\ [][ReleaseRaceNext]_vars

\* ---- two threads inside get_date_header at once
\* A fresh ServerState whose get_date_header is called from two threads while
\* the clock advances.
DateRaceInit ==
    /\ event_pool_max_size = MaxPoolSize
    /\ InitIdleServer
    /\ InitCallers

\* current_time = int(time.time())   -- a new call, or the caller's next one
DSample(c) ==
    /\ thread_pc[c] \in {"idle", "done"}
    /\ thread_local' = [thread_local EXCEPT ![c] = [NoLocals EXCEPT !.current_time = now]]
    /\ thread_pc' = [thread_pc EXCEPT ![c] = "check"]
    /\ UNCHANGED <<poolvars, logvars, clockvars>>
    /\ UNCHANGED <<cfgvars, pc, srvvars, lifevars, statevars, sdvars, bgvars, obsvars>>

\* if current_time != self._cached_date_time or self._cached_date is None:
DCheck(c) ==
    /\ thread_pc[c] = "check"
    /\ thread_local' = [thread_local EXCEPT ![c].stale =
                            (thread_local[c].current_time # cached_date_time
                             \/ cached_date = <<>>)]
    /\ thread_pc' = [thread_pc EXCEPT ![c] =
                        IF thread_local'[c].stale THEN "store_date" ELSE "return"]
    /\ UNCHANGED <<poolvars, logvars, clockvars>>
    /\ UNCHANGED <<cfgvars, pc, srvvars, lifevars, statevars, sdvars, bgvars, obsvars>>

\* self._cached_date = formatdate(current_time, usegmt=True).encode()
DStoreDate(c) ==
    /\ thread_pc[c] = "store_date"
    /\ cached_date' = FormatDate(thread_local[c].current_time)
    /\ thread_pc' = [thread_pc EXCEPT ![c] = "store_time"]
    /\ UNCHANGED <<now, cached_date_time, default_headers, current_date, last_notified,
                   notify_current_time, format_log, last_date_call, notify_log, late_work>>
    /\ UNCHANGED <<poolvars, logvars, thread_local>>
    /\ UNCHANGED <<cfgvars, pc, srvvars, lifevars, statevars, sdvars, bgvars, obsvars>>

\* self._cached_date_time = current_time
DStoreTime(c) ==
    /\ thread_pc[c] = "store_time"
    /\ cached_date_time' = thread_local[c].current_time
    /\ thread_pc' = [thread_pc EXCEPT ![c] = "return"]
    /\ UNCHANGED <<now, cached_date, default_headers, current_date, last_notified,
                   notify_current_time, format_log, last_date_call, notify_log, late_work>>
    /\ UNCHANGED <<poolvars, logvars, thread_local>>
    /\ UNCHANGED <<cfgvars, pc, srvvars, lifevars, statevars, sdvars, bgvars, obsvars>>

\* return self._cached_date
DReturn(c) ==
    /\ thread_pc[c] = "return"
    /\ thread_local' = [thread_local EXCEPT ![c].result = cached_date]
    /\ thread_pc' = [thread_pc EXCEPT ![c] = "done"]
    /\ UNCHANGED <<poolvars, logvars, clockvars>>
    /\ UNCHANGED <<cfgvars, pc, srvvars, lifevars, statevars, sdvars, bgvars, obsvars>>

DateRaceNext ==
    \/ \E c \in Callers : DSample(c)
    \/ \E c \in Callers : DCheck(c)
    \/ \E c \in Callers : DStoreDate(c)
    \/ \E c \in Callers : DStoreTime(c)
    \/ \E c \in Callers : DReturn(c)
    \/ Tick

DateRaceSpec == DateRaceInit /\ [][DateRaceNext]_vars

\* ================================================================ claims
IdlePcs == {"capture", "lifespan_startup", "bind", "bind_failed", "serve_check"}
RunningPcs == {"main_loop", "ml_wait"}
DrainWaitPcs == {"sd_wait_conns", "sd_wait_tasks", "sd_wait_closed"}
ShutdownPcs == {"shutdown", "sd_close_sockets", "sd_snapshot", "sd_request", "sd_sleep",
                "sd_lifespan"} \cup DrainWaitPcs
DrainingPcs == {"ml_gather"} \cup ShutdownPcs
StoppedPcs == {"capture_exit", "reraise", "done", "exited"}

\* idle = 0, running = 1, draining = 2, stopped = 3
PhaseRank ==
    IF pc \in IdlePcs THEN 0
    ELSE IF pc \in RunningPcs THEN 1
    ELSE IF pc \in DrainingPcs THEN 2
    ELSE 3

\* C1: the phase of serve never moves backwards in the order idle, running,
\* draining, stopped; main_loop runs only with started set by a completed
\* startup; shutdown() is entered only after main_loop returned, and at most once.
C1_PhasesForward ==
    /\ [][PhaseRank' >= PhaseRank]_vars
    /\ [](pc \in RunningPcs \cup {"ml_gather"} => started /\ ~lifespan_should_exit)
    /\ [](pc \in ShutdownPcs => main_loop_state = "returned")
    /\ [][shutdown_runs' # shutdown_runs => main_loop_state = "returned"]_vars
    /\ [](shutdown_runs <= 1)

C1_Witness == pc = "done" /\ shutdown_runs = 1 /\ main_loop_state = "returned"

C3_NoLoopLeftRunning ==
    main_loop_state = "returned" => \A l \in Loops : bg[l] \in {"none", "done"}

C3_Witness ==
    /\ main_loop_state = "returned"
    /\ \A l \in Loops : bg[l] = "done"
    /\ captured_signals = <<>>

\* C4: the max-requests monitor sets should_exit and the shutdown event only
\* when total_requests >= the ceiling; a step of the monitor taken below the
\* ceiling leaves both unchanged.
C4_MonitorOnlyAtCeiling ==
    /\ [](max_requests_fired =>
            limit_max_requests # NoLimit /\ total_requests >= limit_max_requests)
    /\ [][(bg'["max_requests"] # bg["max_requests"]
            /\ total_requests < limit_max_requests)
          => (should_exit' = should_exit /\ shutdown_event' = shutdown_event)]_vars

C4_Witness ==
    /\ max_requests_fired
    /\ total_requests = limit_max_requests
    /\ captured_signals = <<>>

\* C5: with a ceiling configured and reached while the monitor loop runs, and
\* nobody else stopping the server, the monitor eventually sets should_exit and
\* the shutdown event and the server is draining.
C5_CeilingLeadsToDraining ==
    (bg["max_requests"] \in {"new", "waiting"} /\ total_requests >= limit_max_requests)
        ~> (should_exit /\ shutdown_event /\ max_requests_fired /\ PhaseRank >= 2)

C5_Witness ==
    /\ max_requests_fired /\ should_exit /\ shutdown_event
    /\ pc = "shutdown"
    /\ captured_signals = <<>>

\* C6: when the lifespan startup handshake asks to exit, nothing is bound,
\* started stays false, no background loop is spawned, and serve returns
\* without running main_loop or shutdown().
C6_LifespanExitNeverRuns ==
    lifespan_should_exit =>
        /\ servers = {}
        /\ ~started
        /\ \A l \in Loops : bg[l] = "none"
        /\ main_loop_state = "not_started"
        /\ shutdown_runs = 0
        /\ pc \in {"serve_check", "capture_exit", "reraise", "done"}

C6_Witness == lifespan_should_exit /\ pc = "done" /\ exit_status = "returned"

\* C7: shutdown() keeps its order: all listeners and all supplied sockets are
\* closed before any handler is asked to shut down; every handler of the
\* snapshot was asked before the drain wait starts; the lifespan shutdown
\* handshake of shutdown() comes only after the drain wait ended.
C7_ShutdownOrder ==
    /\ (shutdown_requested # {} =>
            servers_closed = servers /\ sockets_closed = sockets.items)
    /\ (drain_outcome # "none" => todo = {} /\ snapshot \subseteq shutdown_requested)
    /\ (shutdown_runs > 0 /\ lifespan_shutdown_calls > 0 =>
            drain_outcome \in {"completed", "timeout"})

C7_Witness ==
    /\ pc = "done"
    /\ ~sockets.is_none
    /\ Cardinality(shutdown_requested) = MaxConns
    /\ lifespan_shutdown_calls = 1

\* C8: when the drain deadline passes with connections or tasks still
\* registered, every task still in the task set gets cancel(), nothing is
\* raised out of shutdown(), and shutdown() goes on to its lifespan step.
C8_DeadlineCancelsTasks ==
    drain_outcome = "timeout" =>
        /\ tasks \subseteq cancel_sent
        /\ pc \in {"sd_lifespan", "capture_exit", "reraise", "done"}
        /\ exit_status # "sys_exit_1"

C8_Witness ==
    /\ drain_outcome = "timeout"
    /\ tasks # {} /\ connections # {}
    /\ pc = "sd_lifespan"

\* C9: with a finite drain deadline, a drain wait that is parked always ends,
\* also when the handlers never leave the connection set, and shutdown()
\* returns.
C9_DrainEndsByDeadline ==
    (pc \in DrainWaitPcs /\ timeout_graceful_shutdown # "None")
        ~> (drain_outcome \in {"completed", "timeout"} /\ pc \in StoppedPcs)

C9_Witness ==
    /\ pc = "done"
    /\ drain_outcome = "timeout"
    /\ connections = snapshot /\ Cardinality(connections) = MaxConns

\* C10: when shutdown() starts with no connection and no task, the drain wait
\* never parks, ends without the deadline and without any forced cancel, and
\* both sets are empty when shutdown() is over.
C10_EmptyShutdownImmediate ==
    empty_at_shutdown =>
        /\ ~drain_blocked
        /\ drain_outcome \in {"none", "completed"}
        /\ cancel_sent = {}
        /\ connections = {} /\ tasks = {}
        /\ (pc \in StoppedPcs => drain_outcome = "completed")

C10_Witness ==
    /\ empty_at_shutdown
    /\ pc = "done"
    /\ drain_outcome = "completed"
    /\ timeout_graceful_shutdown = "finite"

\* C11: the step that ends shutdown() invokes the lifespan shutdown handshake
\* once when force_exit is false at that point and not at all when it is true;
\* shutdown() does not invoke it earlier, and a whole run of serve invokes it
\* at most once.
C11_HandshakeOnce ==
    /\ [][(pc = "sd_lifespan" /\ pc' # "sd_lifespan") =>
            lifespan_shutdown_calls' =
                lifespan_shutdown_calls + (IF force_exit THEN 0 ELSE 1)]_vars
    /\ [](pc \in ShutdownPcs => lifespan_shutdown_calls = 0)
    /\ [](lifespan_shutdown_calls <= 1)

C11_Witness ==
    /\ pc = "done"
    /\ shutdown_runs = 1
    /\ force_exit
    /\ lifespan_shutdown_calls = 0

\* C12: once force_exit is set, shutdown() is never parked in a wait that only
\* the connection set becoming empty or the drain deadline can end.
C12_ForceExitSkipsDrain ==
    force_exit => ~(pc = "sd_wait_closed" /\ connections # {})

\* C13: every delivery of a handled signal to handle_exit appends that signal
\* to the captured-signal log and leaves should_exit true and the shutdown
\* event set; the log is the sequence of delivered signals, in delivery order.
C13_SignalLogged ==
    /\ [](captured_signals = delivered)
    /\ [][delivered' # delivered =>
            /\ \E sig \in HANDLED_SIGNALS :
                /\ delivered' = Append(delivered, sig)
                /\ captured_signals' = Append(captured_signals, sig)
            /\ should_exit'
            /\ shutdown_event' = TRUE]_vars

C13_Witness ==
    /\ delivered = <<SIGTERM, SIGINT>>
    /\ captured_signals = delivered
    /\ should_exit /\ shutdown_event

\* C14 as stated: force_exit is true only after two interrupt signals.
C14_ForceNeedsTwoInterrupts ==
    force_exit => Cardinality({i \in 1..Len(delivered) : delivered[i] = SIGINT}) >= 2

\* C14, amended: force_exit changes only by becoming true in a delivery of an
\* interrupt signal made while should_exit is already true, whatever set
\* should_exit; every such delivery sets it; a run with no interrupt signal
\* leaves it false.
C14_ForceOnlyOnInterruptWhileExiting ==
    /\ [][force_exit' # force_exit =>
            /\ force_exit'
            /\ should_exit
            /\ delivered' = Append(delivered, SIGINT)]_vars
    /\ [][(delivered' = Append(delivered, SIGINT) /\ should_exit) => (force_exit' = TRUE)]_vars
    /\ [](force_exit => \E i \in 1..Len(delivered) : delivered[i] = SIGINT)

C14_Witness ==
    /\ force_exit
    /\ delivered = <<SIGINT>>
    /\ max_requests_fired

\* C15 as stated: when serve is over, every captured signal was re-raised, in
\* reverse order of receipt.
C15_AllReraised ==
    (pc = "done" /\ main_thread /\ exit_status # "sys_exit_1") =>
        reraised = Reverse(captured_signals)

\* C15, amended: no captured signal is re-raised before the original handlers
\* are back; the signals re-raised are, in order, a prefix of the reversed log,
\* so each at most once and most recent first; they are the whole reversed log
\* when every restored handler returned; once the handlers are back the
\* orchestrator captures nothing more.
C15_RestoreThenReraise ==
    /\ [](reraised # <<>> => ~handlers_installed)
    /\ [](/\ Len(reraised) <= Len(captured_signals)
          /\ reraised = SubSeq(Reverse(captured_signals), 1, Len(reraised)))
    /\ []((pc = "done" /\ exit_status = "returned" /\ main_thread) =>
            reraised = Reverse(captured_signals))
    /\ [][(pc \in {"reraise", "done"}) => captured_signals' = captured_signals]_vars

C15_Witness ==
    /\ pc = "done"
    /\ exit_status = "returned"
    /\ captured_signals = <<SIGTERM, SIGINT>>
    /\ reraised = <<SIGINT, SIGTERM>>

\* C16: when serve runs off the main thread, handle_exit is never installed,
\* nothing is restored, no signal reaches the log, and serve ends without
\* re-raising anything.
C16_NoSignalHandlingOffMainThread ==
    /\ [](~main_thread =>
            /\ ~handlers_installed
            /\ captured_signals = <<>> /\ delivered = <<>>
            /\ reraised = <<>>
            /\ pc # "reraise"
            /\ ~force_exit)
    /\ [][~main_thread => handlers_installed' = handlers_installed]_vars

C16_Witness ==
    /\ ~main_thread
    /\ pc = "done"
    /\ exit_status = "returned"
    /\ shutdown_runs = 1

\* C17: after a successful startup the listeners all come from one source,
\* the first configured one in the order socket list, config.fd, config.uds,
\* host/port, with one listener per supplied socket, and at least one listener
\* is bound.
C17_OneSourceByPrecedence ==
    started =>
        /\ ~sockets.is_none => servers = {<<"sockets", s>> : s \in sockets.items}
        /\ (sockets.is_none /\ config_fd # "None") => servers = {<<"fd", config_fd>>}
        /\ (sockets.is_none /\ config_fd = "None" /\ config_uds # "None") =>
                servers = {<<"uds", config_uds>>}
        /\ (sockets.is_none /\ config_fd = "None" /\ config_uds = "None") =>
                servers = {<<"host_port", "host_port">>}
        /\ servers # {}

C17_Witness ==
    /\ started
    /\ ~sockets.is_none /\ sockets.items = {}
    /\ config_fd # "None" /\ config_uds # "None"
    /\ servers = {}
    /\ pc = "ml_wait"

\* C18: when the bind on the host/port branch fails, the lifespan shutdown
\* handshake is invoked once and then serve ends by sys.exit(1); started stays
\* false, main_loop and shutdown() never run, nothing is bound, and the bind
\* was attempted exactly once.
C18_BindFailureExits ==
    /\ []((pc = "bind_failed" \/ pc = "exited") =>
            /\ ~started
            /\ servers = {}
            /\ main_loop_state = "not_started"
            /\ shutdown_runs = 0
            /\ \A l \in Loops : bg[l] = "none"
            /\ bind_attempts = 1)
    /\ [](pc = "bind_failed" => lifespan_shutdown_calls = 0 /\ exit_status = "running")
    /\ [](pc = "exited" <=> exit_status = "sys_exit_1")
    /\ [](pc = "exited" => lifespan_shutdown_calls = 1)
    /\ [][pc = "exited" => pc' = "exited"]_vars

C18_Witness ==
    /\ pc = "exited"
    /\ exit_status = "sys_exit_1"
    /\ lifespan_shutdown_calls = 1
    /\ bind_attempts = 1

\* C19: whatever acquire, release and set operations came before, the Event
\* acquire_event returns is unset at the moment it is returned, whether it was
\* created or taken from the pool.
C19_AcquiredIsUnset ==
    /\ [](~last_acquired.was_set)
    /\ [][last_acquired' # last_acquired => ~event_is_set'[last_acquired'.event]]_vars

C19_Witness ==
    /\ last_acquired.event \in Allocated
    /\ ~last_acquired.fresh
    /\ last_acquired.set_in_pool
    /\ ~last_acquired.was_set
    /\ ~event_is_set[last_acquired.event]

\* C20: the pool never holds more Events than its capacity.
C20_PoolWithinCapacity ==
    Len(event_pool) <= event_pool_max_size

C20_Witness ==
    /\ event_pool_max_size > 0
    /\ Len(event_pool) = event_pool_max_size
    /\ allocated > event_pool_max_size

\* C21: with capacity 0 the pool is empty in every state, whatever was
\* released, and every Event acquire_event returns is one it just created: it
\* is unset and release_event was never given it.
C21_ZeroCapacityNoReuse ==
    event_pool_max_size = 0 =>
        /\ event_pool = <<>>
        /\ ~last_released.pooled
        /\ last_acquired.event # 0 =>
            /\ last_acquired.fresh
            /\ ~last_acquired.was_set
            /\ ~last_acquired.released_before

C21_Witness ==
    /\ event_pool_max_size = 0
    /\ released = {1}
    /\ last_released.event = 1
    /\ last_acquired.event = 2 /\ last_acquired.fresh
    /\ event_pool = <<>>

\* C22: after release_event the Event it was given is unset, whether it was
\* appended to the pool or discarded at capacity.
C22_ReleaseLeavesUnset ==
    last_released.event # 0 => ~last_released.set_after

C22_Witness ==
    /\ last_released.event # 0
    /\ ~last_released.pooled
    /\ last_released.set_before /\ last_released.set_after
    /\ Len(event_pool) = event_pool_max_size

\* C23: an acquire_event on a non-empty pool returns the last Event of the
\* pool, which release_event was given earlier, and removes exactly that entry;
\* on an empty pool it returns a newly created Event and the pool stays empty.
C23_AcquireTakesLast ==
    [][(Len(event_pool') < Len(event_pool) \/ allocated' > allocated) =>
        IF event_pool # <<>>
        THEN /\ last_acquired'.event = Last(event_pool)
             /\ Last(event_pool) \in released
             /\ ~last_acquired'.fresh
             /\ event_pool' = SubSeq(event_pool, 1, Len(event_pool) - 1)
             /\ Len(event_pool') = Len(event_pool) - 1
             /\ allocated' = allocated
        ELSE /\ last_acquired'.fresh
             /\ last_acquired'.event = allocated + 1
             /\ allocated' = allocated + 1
             /\ event_pool' = <<>>]_vars

C23_Witness ==
    /\ ~last_acquired.fresh
    /\ last_acquired.event = 2
    /\ event_pool = <<1>>
    /\ last_released.event = 2

\* C24: after N Events were acquired from a fresh pool of capacity C and then
\* all released, the pool holds exactly min(N, C) Events.
C24_StressLeavesMin ==
    test_phase = "done" => Len(event_pool) = Min(test_n, event_pool_max_size)

C24_Witness ==
    /\ test_phase = "done"
    /\ test_n > event_pool_max_size
    /\ event_pool_max_size > 0
    /\ Len(event_pool) = event_pool_max_size

\* C25: when two threads are inside acquire_event with one Event pooled, at
\* most one of them is handed the pooled Event, a thread that is not gets a
\* newly created unset Event, the two never get the same Event, and neither
\* gets an error.
C25_RaceOneWinner ==
    race_started =>
        /\ \A c \in Callers : ~caller_result[c].error
        /\ \A c \in Callers : caller_pc[c] = "done" =>
            /\ caller_result[c].event \in Allocated
            /\ ~caller_result[c].is_set
        /\ (\A c \in Callers : caller_pc[c] \in {"clear", "done"}) =>
            /\ Cardinality({c \in Callers : ~caller_result[c].fresh}) <= 1
            /\ caller_result["caller1"].event # caller_result["caller2"].event

C25_Witness ==
    /\ race_started
    /\ \A c \in Callers : caller_pc[c] = "done"
    /\ ~caller_result["caller2"].fresh
    /\ caller_result["caller1"].fresh
    /\ event_pool = <<>>

\* C26: every get_date_header call returns the HTTP date of the epoch second
\* current at the call and leaves the cached second equal to it; the date of a
\* second differs from the date of the second before, so a call after the
\* second rolled over never returns the previous second's value.
C26_DateOfCurrentSecond ==
    /\ [](last_date_call.second # 0 =>
            last_date_call.value = FormatDate(last_date_call.second))
    /\ [](last_date_call.second = now =>
            cached_date_time = now /\ cached_date = last_date_call.value)
    /\ [][last_date_call' # last_date_call =>
            /\ last_date_call'.second = now
            /\ last_date_call'.value = FormatDate(now)
            /\ cached_date_time' = now]_vars
    /\ [](FormatDate(now) # FormatDate(now - 1))

\* A call made after the clock rolled over twice (and into the next minute)
\* formatted anew.
C26_Witness ==
    /\ last_date_call.second = Epoch + 2
    /\ ~last_date_call.from_cache
    /\ Len(format_log) >= 2
    /\ cached_date_time = Epoch + 2

\* C27: within one wall-clock second the formatting step runs at most once (no
\* second is formatted twice, and once the cache holds the current second no
\* step formats or changes it) and every call returns the same value.
C27_OneFormatPerSecond ==
    /\ [](\A i, j \in 1..Len(format_log) : i < j => format_log[i] < format_log[j])
    /\ [][(now' = now /\ cached_date # <<>> /\ cached_date_time = now) =>
            (format_log' = format_log /\ cached_date' = cached_date)]_vars
    /\ [][(last_date_call' # last_date_call /\ last_date_call.second = now) =>
            (last_date_call'.value = last_date_call.value
             /\ last_date_call'.from_cache)]_vars

\* A second call within the second after the start was served from the cache.
C27_Witness ==
    /\ now = Epoch + 1
    /\ last_date_call.second = now
    /\ last_date_call.from_cache
    /\ Len(format_log) = 2

\* C28: after every iteration of the date loop default_headers is the pair
\* ("date", the value that iteration got from get_date_header) followed by the
\* configured headers when date_header is on, and exactly the configured headers
\* when it is off; before the first iteration it is the empty list.
C28_DefaultHeaders ==
    /\ [](current_date = <<>> => default_headers = <<>>)
    /\ [](current_date # <<>> =>
            default_headers = (IF date_header THEN <<<<"date", current_date>>>> ELSE <<>>)
                              \o encoded_headers)
    /\ [][default_headers' # default_headers \/ current_date' # current_date =>
            /\ last_date_call'.second = now
            /\ current_date' = last_date_call'.value]_vars

\* The loop rebuilt the list in the second after the start, with the date
\* header on and static headers configured.
C28_Witness ==
    /\ date_header
    /\ encoded_headers = StaticHeaders
    /\ current_date = FormatDate(Epoch + 1)
    /\ default_headers = <<<<"date", FormatDate(Epoch + 1)>>>> \o StaticHeaders

\* C29: once the shutdown event is set, a background loop's next step ends it,
\* whether it was parked and woken by the event or its timeout expired at that
\* moment, and no loop does a unit of work (rebuilding default_headers, invoking
\* the callback, checking the ceiling) with the event set.
C29_LoopsStopWithoutWork ==
    /\ [](~late_work)
    /\ [][\A l \in Loops :
            (shutdown_event /\ bg[l] \in {"new", "waiting", "callback"} /\ bg'[l] # bg[l])
                => bg'[l] = "done"]_vars
    /\ [][shutdown_event =>
            (default_headers' = default_headers /\ notify_log' = notify_log)]_vars

\* All three loops ended on their own after the event was set, before
\* main_loop woke to cancel them; the date and notify loops had worked before.
C29_Witness ==
    /\ shutdown_event
    /\ pc = "ml_wait"
    /\ \A l \in Loops : bg[l] = "done" /\ ~bg_cancel[l]
    /\ current_date # <<>>
    /\ Len(notify_log) >= 1
    /\ ~late_work

\* C30: the callback is invoked only when more than timeout_notify passed since
\* last_notified, last_notified becomes the time of the invocation when the
\* callback returns, two invocations are more than timeout_notify apart, and
\* the first iteration on a fresh server invokes the callback.
C30_NotifyInterval ==
    /\ [](\A i \in 1..(Len(notify_log) - 1) :
            notify_log[i + 1] - notify_log[i] > timeout_notify)
    /\ [][notify_log' # notify_log =>
            /\ now - last_notified > timeout_notify
            /\ notify_log' = Append(notify_log, now)]_vars
    /\ [][last_notified' # last_notified =>
            /\ bg["notify"] = "callback"
            /\ last_notified' = notify_log[Len(notify_log)]]_vars
    /\ [][(bg["notify"] = "new" /\ last_notified = 0 /\ bg'["notify"] # "new"
           /\ ~should_exit /\ ~bg_cancel["notify"])
            => bg'["notify"] = "callback"]_vars

\* The callback was invoked at the start and again two seconds later, and the
\* second invocation time was recorded.
C30_Witness ==
    /\ Len(notify_log) = 2
    /\ notify_log[1] = Epoch
    /\ last_notified = notify_log[2]

\* C31: a background loop cancelled at one of its suspension points (the wait
\* on the shutdown event, or the notify callback) finishes normally: the
\* CancelledError is caught inside the loop, the loop ends as done, and the
\* step changes neither the position of serve/main_loop nor the exit status.
C31_CancelledLoopEndsNormally ==
    /\ [](cancel_escaped = {})
    /\ [][\A l \in Loops :
            (bg_cancel[l] /\ bg[l] \in SuspensionPoints /\ bg'[l] # bg[l])
                => (bg'[l] = "done" /\ pc' = pc /\ exit_status' = exit_status
                    /\ cancel_escaped' = {})]_vars

\* All three loops were cancelled and are done, the notify loop while it was
\* inside its callback (the callback was started and last_notified not stored).
C31_Witness ==
    /\ main_loop_state = "returned"
    /\ \A l \in Loops : bg[l] = "done" /\ ~bg_cancel[l]
    /\ Len(notify_log) = 1
    /\ last_notified = 0
    /\ cancel_escaped = {}

\* C32: once the shutdown event is set while main_loop runs, main_loop cancels
\* every loop that is not done and returns, also when a loop does not finish
\* its cancellation.
C32_MainLoopReturnsAfterBoundedWait ==
    (shutdown_event /\ pc \in {"ml_wait", "ml_gather"}) ~> (main_loop_state = "returned")

\* The one-second timeout of wait_for has fired, the notify task is still
\* inside its callback with the cancel request spent, and main_loop is still
\* parked in wait_for: only the callback's return can release it.
C32_Witness ==
    /\ pc = "ml_gather"
    /\ gather_timed_out
    /\ bg["notify"] = "callback"
    /\ ~bg_cancel["notify"]
    /\ \A l \in Loops \ {"notify"} : bg[l] = "done"
    /\ main_loop_state = "running"

\* C33: shutdown asks each handler of the snapshot exactly once: during the
\* iteration the handlers asked and those still to ask partition the snapshot,
\* each step asks one handler of the snapshot that was not asked before, the
\* snapshot does not follow the live set, and the iteration ends only when
\* every handler of the snapshot was asked, whether or not handlers left the
\* live set meanwhile.
C33_EachSnapshotHandlerAskedOnce ==
    /\ [](pc = "sd_request" =>
            (todo \cup shutdown_requested = snapshot /\ todo \cap shutdown_requested = {}))
    /\ [][(pc = "sd_request" /\ shutdown_requested' # shutdown_requested) =>
            (\E c \in snapshot \ shutdown_requested :
                shutdown_requested' = shutdown_requested \cup {c})]_vars
    /\ [][(pc = "sd_request") => snapshot' = snapshot]_vars
    /\ [][(pc = "sd_request" /\ pc' # "sd_request") => shutdown_requested = snapshot]_vars

\* The iteration over a full snapshot is over, every handler was asked, and all
\* of them left the live set while it ran.
C33_Witness ==
    /\ pc = "sd_request"
    /\ todo = {}
    /\ Cardinality(snapshot) = MaxConns
    /\ shutdown_requested = snapshot
    /\ connections = {}

\* C34: while two callers are inside release_event at once, the pool never
\* holds more Events than its capacity, and each caller's Event is in the pool
\* at most once.
C34_ConcurrentReleaseKeepsPool ==
    race_started =>
        /\ Len(event_pool) <= event_pool_max_size
        /\ \A c \in Callers : Copies(thread_local[c].event) <= 1

\* Both callers passed the size check before either appended; both calls are
\* over and the pool is one Event above its capacity.
C34_Witness ==
    /\ race_started
    /\ \A c \in Callers : thread_pc[c] = "done"
    /\ Len(event_pool) = event_pool_max_size + 1
    /\ \A c \in Callers : Copies(thread_local[c].event) = 1

\* C39: for every sequence of acquire_event and release_event calls, releasing
\* an Event twice included, no Event is in the pool more than once, and an
\* acquire_event that takes an Event from the pool never takes one that an
\* earlier acquirer still holds.
C39_NoEventSharedByTwoHolders ==
    /\ [](\A e \in Allocated : Copies(e) <= 1)
    /\ [][(Len(event_pool') < Len(event_pool)) => Last(event_pool) \notin held]_vars

\* Event 1 was released twice and acquired once since: its acquirer holds it
\* and the pool still has it to hand to the next acquirer.
C39_Witness ==
    /\ event_pool = <<1>>
    /\ held = {1}
    /\ last_acquired.event = 1
    /\ ~last_acquired.fresh
    /\ allocated = 1

\* C35: for every interleaving of two callers of get_date_header, once both
\* calls are complete the cached value is the formatting of the cached second,
\* and each call returned the formatting of a second not older than the one
\* it sampled.
C35_DateCacheThreadSafe ==
    (\A c \in Callers : thread_pc[c] = "done") =>
        /\ cached_date = FormatDate(cached_date_time)
        /\ \A c \in Callers :
            \E t \in thread_local[c].current_time..(Epoch + MaxTicks) :
                thread_local[c].result = FormatDate(t)

\* Both calls are over; the cache pairs the value of one second with the
\* number of another.
C35_Witness ==
    /\ \A c \in Callers : thread_pc[c] = "done"
    /\ cached_date # <<>>
    /\ cached_date # FormatDate(cached_date_time)

\* C36: when serve is over without a restored handler having ended it, whether
\* it returned or startup ended the process after a failed bind, every signal
\* captured while the handlers were installed has been re-raised exactly once,
\* most recent first.
C36_CapturedReraisedOnEveryExit ==
    (pc \in {"done", "exited"} /\ exit_status \in {"returned", "sys_exit_1"})
        => reraised = Reverse(captured_signals)

\* A signal arrived while create_server was awaited, the bind then failed and
\* startup ended the process: the handlers are restored and nothing was
\* re-raised.
C36_Witness ==
    /\ pc = "exited"
    /\ exit_status = "sys_exit_1"
    /\ captured_signals # <<>>
    /\ reraised = <<>>
    /\ ~handlers_installed

\* C37: when serve has returned, every listener bound during startup has been
\* closed, also when a signal was delivered while startup was in progress.
C37_NoListenerLeak ==
    (pc = "done" /\ exit_status = "returned") => servers \subseteq servers_closed

\* A signal arrived during startup, the listeners were bound, _serve returned
\* at `if self.should_exit: return`, and serve is over with every listener
\* still open and shutdown never run.
C37_Witness ==
    /\ pc = "done"
    /\ exit_status = "returned"
    /\ started
    /\ servers # {}
    /\ servers_closed = {}
    /\ shutdown_runs = 0
    /\ captured_signals # <<>>
    /\ ~lifespan_should_exit

\* C38: no lost wakeup.  Whenever main_loop is parked on the shutdown event,
\* should_exit true implies the event is set; and every step that turns
\* should_exit from false to true once main_loop has been entered sets the
\* event in the same step.
C38_NoLostWakeup ==
    /\ []((pc = "ml_wait" /\ should_exit) => shutdown_event)
    /\ [][(pc \in {"main_loop", "ml_wait"} /\ ~should_exit /\ should_exit')
            => shutdown_event' = TRUE]_vars

\* main_loop is parked, and a signal handler has just set should_exit and the
\* event: the wait is about to return.
C38_Witness ==
    /\ pc = "ml_wait"
    /\ should_exit
    /\ shutdown_event
    /\ captured_signals # <<>>
    /\ ~max_requests_fired

\* C40 as stated: once shutdown has returned, every task still in the task
\* set has been sent a cancellation request, whichever way the drain ended.
C40_RemainingTasksCancelled ==
    (pc \in {"capture_exit", "reraise", "done"} /\ shutdown_runs > 0)
        => tasks \subseteq cancel_sent

\* C40 as amended: the step at which the drain deadline elapses sends a
\* cancellation request to every task in the task set at that moment, and
\* shutdown sends cancellation requests at no other step, so tasks left when
\* force_exit cut the drain short have none when shutdown returns.
C40_TasksCancelledAtDeadline ==
    /\ [][(drain_outcome # "timeout" /\ drain_outcome' = "timeout")
            => tasks \subseteq cancel_sent']_vars
    /\ [][(cancel_sent' # cancel_sent)
            => (drain_outcome' = "timeout" /\ cancel_sent' = cancel_sent \cup tasks)]_vars
    /\ []((drain_outcome # "timeout") => cancel_sent = {})

\* The deadline has just elapsed with a task still running: the task is in
\* the set and has its cancellation request.
C40_Witness ==
    /\ pc = "sd_lifespan"
    /\ drain_outcome = "timeout"
    /\ tasks # {}
    /\ tasks \subseteq cancel_sent

====
